---- MODULE Spec2Model ----
(***************************************************************************)
(* A model of BulletApi: the path matcher (pathToRegex, isDynamicPath,     *)
(* extractParams), route registration and dispatch (BulletApi.use/get/...,  *)
(* BulletApi.handleRequest) and the middleware pipeline                    *)
(* (middlewarePipeline.runNext).                                           *)
(*                                                                         *)
(* Strings are sequences of one-character strings, so that the regular     *)
(* expression built by pathToRegex can be run character by character.      *)
(***************************************************************************)
EXTENDS Integers, Sequences, FiniteSets, TLC

VARIABLES
    mPattern,    \* matcher run: the route pattern under test
    mPathname,   \* matcher run: the pathname under test
    mVerdict,    \* matcher run: result of the route test of handleRequest
    middlewares, \* BulletApi.#middlewares
    routes,      \* BulletApi.#routes
    lastCall,    \* the last registration call made on the application and how it ended
    rq,          \* per dispatched request: what handleRequest derived for it
    res,         \* per dispatched request: its response object
    acts,        \* per dispatched request: the calls of runNext made so far
    log,         \* per dispatched request: chain positions of the handlers invoked, in order
    stack,       \* the calls of runNext that are executing synchronously, innermost last
    extraNext,   \* per dispatched request: repeated continuation calls made so far
    limits,      \* how far the handlers of a run may go: [awaits, extraNext]
    inbound,     \* the incoming message of the request whose body is parsed
    parsing,     \* per call of runNext of that request: where its body parser stands
    rateOpts,    \* rateLimit: the options windowMs and max
    requests,    \* rateLimit: the Map from client key to {count, resetTime}
    now,         \* Date.now()
    passed,      \* rateLimit: per client key, the times at which next() was called
    unswept,     \* rateLimit: the Map as it would be had the cleanup interval never run
    timer        \* timeout: the timer of the request ("none", "armed", "fired", "threw")

mvars == <<mPattern, mPathname, mVerdict>>
appvars == <<middlewares, routes, lastCall>>
reqvars == <<rq, res, acts, log, stack, extraNext, limits>>
bvars == <<inbound, parsing>>
svars == <<rateOpts, requests, now, passed, unswept, timer>>
vars == <<mPattern, mPathname, mVerdict, middlewares, routes, lastCall,
          rq, res, acts, log, stack, extraNext, limits, inbound, parsing,
          rateOpts, requests, now, passed, unswept, timer>>

(***************************************************************************)
(* Bounds                                                                  *)
(***************************************************************************)
MaxPatLen == 4      \* characters of a pattern after its leading "/"
MaxPathLen == 3     \* characters of a pathname after its leading "/"
MaxMiddlewares == 2 \* calls of use() that register a middleware
MaxRouteHandlers == 2 \* handlers passed to one route registration
MaxAwaits == 2      \* per request: handler invocations that suspend (each once)
MaxExtraNext == 0   \* per request: continuation calls beyond a handler's first

(***************************************************************************)
(* Strings                                                                 *)
(***************************************************************************)
SeqsUpTo(S, n) == UNION {[1..k -> S] : k \in 0..n}

Max(S) == CHOOSE x \in S : \A y \in S : y <= x

\* \w of the regular expression, restricted to the model's alphabet
IsWordChar(c) == c \in {"a", "b"}

\* String.prototype.includes(c)
Includes(s, c) == \E i \in 1..Len(s) : s[i] = c

\* String.prototype.split("/")
RECURSIVE SplitSlash(_)
SplitSlash(s) ==
    IF ~Includes(s, "/") THEN <<s>>
    ELSE LET i == CHOOSE k \in 1..Len(s) :
                    s[k] = "/" /\ \A j \in 1..(k-1) : s[j] # "/"
         IN <<SubSeq(s, 1, i-1)>> \o SplitSlash(SubSeq(s, i+1, Len(s)))

(***************************************************************************)
(* pathToRegex: the pattern text becomes a sequence of regex tokens.       *)
(*   "/"           -> "\/"            a literal slash                      *)
(*   ":" \w+       -> (?<name>[^/]+)  a named group, name taken greedily   *)
(*   "."           -> left as is: the regex wildcard                       *)
(*   anything else -> itself, a literal                                    *)
(* new RegExp throws a SyntaxError when a group name occurs twice.         *)
(***************************************************************************)
Lit(c) == [t |-> "lit", c |-> c, name |-> <<>>]
AnyChar == [t |-> "any", c |-> "", name |-> <<>>]
Group(n) == [t |-> "group", c |-> "", name |-> n]

\* the end of the maximal run of word characters of s that starts at i
WordRunEnd(s, i) ==
    Max({j \in i..Len(s) : \A k \in i..j : IsWordChar(s[k])})

RECURSIVE RegexTokens(_, _)
RegexTokens(path, i) ==
    IF i > Len(path) THEN <<>>
    ELSE IF path[i] = ":" /\ i < Len(path) /\ IsWordChar(path[i+1])
         THEN LET j == WordRunEnd(path, i+1)
              IN <<Group(SubSeq(path, i+1, j))>> \o RegexTokens(path, j+1)
         ELSE IF path[i] = "."
              THEN <<AnyChar>> \o RegexTokens(path, i+1)
              ELSE <<Lit(path[i])>> \o RegexTokens(path, i+1)

GroupNames(toks) == {toks[i].name : i \in {k \in 1..Len(toks) : toks[k].t = "group"}}

NumGroups(toks) == Cardinality({k \in 1..Len(toks) : toks[k].t = "group"})

pathToRegex(path) ==
    LET toks == RegexTokens(path, 1)
    IN [valid |-> Cardinality(GroupNames(toks)) = NumGroups(toks),
        toks  |-> toks]

\* isDynamicPath
isDynamicPath(path) == Includes(path, ":")

(***************************************************************************)
(* Execution of ^tokens$ on a string, as a backtracking matcher does it:   *)
(* a group takes the longest run of non-slash characters for which the     *)
(* rest still matches.                                                     *)
(***************************************************************************)
NoMatch == [ok |-> FALSE, caps |-> <<>>]

RECURSIVE RegexExec(_, _)
RegexExec(toks, s) ==
    IF toks = <<>> THEN [ok |-> s = <<>>, caps |-> <<>>]
    ELSE LET t == Head(toks)
             rest == Tail(toks)
         IN IF t.t = "lit"
            THEN IF s # <<>> /\ Head(s) = t.c THEN RegexExec(rest, Tail(s)) ELSE NoMatch
            ELSE IF t.t = "any"
            THEN IF s # <<>> THEN RegexExec(rest, Tail(s)) ELSE NoMatch
            ELSE LET ks == {k \in 1..Len(s) :
                               /\ \A j \in 1..k : s[j] # "/"
                               /\ RegexExec(rest, SubSeq(s, k+1, Len(s))).ok}
                 IN IF ks = {} THEN NoMatch
                    ELSE LET k == Max(ks)
                             r == RegexExec(rest, SubSeq(s, k+1, Len(s)))
                         IN [ok |-> TRUE,
                             caps |-> <<[name |-> t.name, value |-> SubSeq(s, 1, k)]>>
                                      \o r.caps]

\* regex.test(pathname)
RegexTest(re, s) == RegexExec(re.toks, s).ok

\* match.groups as a set of name/value pairs ({} when there is no match)
extractParams(pathname, routePath) ==
    LET m == RegexExec(pathToRegex(routePath).toks, pathname)
    IN IF m.ok THEN {m.caps[i] : i \in 1..Len(m.caps)} ELSE {}

(***************************************************************************)
(* The test handleRequest applies to one route entry of the right method:  *)
(* exact equality first, then the regex for a path that contains ":".      *)
(* "threw" is the SyntaxError of new RegExp leaving handleRequest.         *)
(***************************************************************************)
NoParams == {}

RouteTest(path, pathname) ==
    IF path = pathname
    THEN [matched |-> TRUE, threw |-> FALSE, params |-> NoParams]
    ELSE IF isDynamicPath(path)
         THEN LET re == pathToRegex(path)
              IN IF ~re.valid
                 THEN [matched |-> FALSE, threw |-> TRUE, params |-> NoParams]
                 ELSE IF RegexTest(re, pathname)
                      THEN [matched |-> TRUE, threw |-> FALSE,
                            params |-> extractParams(pathname, path)]
                      ELSE [matched |-> FALSE, threw |-> FALSE, params |-> NoParams]
         ELSE [matched |-> FALSE, threw |-> FALSE, params |-> NoParams]

(***************************************************************************)
(* Handlers.  A handler is known to the framework by whether it is a       *)
(* function and by its declared parameter count (Function.length); what it *)
(* does when invoked is up to its author and is left open (see the handler *)
(* steps below).                                                           *)
(***************************************************************************)
Fn(n, len) == [name |-> n, length |-> len, fn |-> TRUE]
NotAFunction == [name |-> "str", length |-> 0, fn |-> FALSE]

\* the two checks of use() and of parseHandlers' loop body
ValidHandler(h) == h.fn /\ (h.length = 2 \/ h.length = 3)

\* a parseHandlers that looks at the first handler only
parseHandlersThrowsFirstOnly(handlers) ==
    handlers # <<>> /\ ~ValidHandler(handlers[1])

\* parseHandlers throws
parseHandlersThrows(handlers) ==
    \E i \in 1..Len(handlers) : ~ValidHandler(handlers[i])

(***************************************************************************)
(* The response object (http.ServerResponse, then enhanceResponse).        *)
(* writeHead throws ERR_HTTP_HEADERS_SENT once the header has been         *)
(* written; end on an ended response does nothing.                         *)
(***************************************************************************)
FreshResponse ==
    [headersSent |-> FALSE, ended |-> FALSE, status |-> 200,
     ctype |-> "", body |-> "", enhanced |-> FALSE, endedBy |-> 0,
     location |-> "", authenticate |-> ""]

writeHead(rs, code, ctype) ==
    IF rs.headersSent
    THEN [threw |-> TRUE, res |-> rs]
    ELSE [threw |-> FALSE,
          res |-> [rs EXCEPT !.headersSent = TRUE, !.status = code, !.ctype = ctype]]

\* endedBy records who ended the response: a chain position for a handler,
\* ByPipeline for the catch block of runNext, ByRouter for handleRequest
ByPipeline == -1
ByRouter == -2

end(rs, body, who) ==
    IF rs.ended THEN rs
    ELSE [rs EXCEPT !.headersSent = TRUE, !.ended = TRUE, !.body = body,
                    !.endedBy = who]

enhanceResponse(rs) == [rs EXCEPT !.status = 200, !.enhanced = TRUE]

(***************************************************************************)
(* Registration: use(), and get/post/put/delete/head/options, which differ *)
(* only in the method they store.                                          *)
(***************************************************************************)
\* a registration call: what was called, with what, whether it threw and
\* what it returned ("undefined", or "this" for the chainable shortcuts)
NoCall == [op |-> "none", args |-> <<>>, threw |-> FALSE, ret |-> "undefined"]

Call(op, args, threw, ret) ==
    [op |-> op, args |-> args, threw |-> threw,
     ret |-> IF threw THEN "undefined" ELSE ret]

Use(middleware) ==
    /\ stack = <<>>
    /\ IF ValidHandler(middleware)
       THEN middlewares' = Append(middlewares, middleware)
       ELSE UNCHANGED middlewares      \* throws
    /\ lastCall' = Call("use", <<middleware>>, ~ValidHandler(middleware), "undefined")
    /\ UNCHANGED <<routes, reqvars, mvars, bvars, svars>>

RegisterRoute(method, path, handlers) ==
    /\ stack = <<>>
    /\ IF parseHandlersThrows(handlers)
       THEN UNCHANGED routes           \* throws
       ELSE routes' = Append(routes,
                [method |-> method, path |-> path, handlers |-> handlers])
    /\ lastCall' = Call("route", <<method, path, handlers>>,
                        parseHandlersThrows(handlers), "undefined")
    /\ UNCHANGED <<middlewares, reqvars, mvars, bvars, svars>>

\* global(middleware): this.use(middleware); return this
Global(middleware) ==
    /\ stack = <<>>
    /\ IF ValidHandler(middleware)
       THEN middlewares' = Append(middlewares, middleware)
       ELSE UNCHANGED middlewares      \* use() throws
    /\ lastCall' = Call("global", <<middleware>>, ~ValidHandler(middleware), "this")
    /\ UNCHANGED <<routes, reqvars, mvars, bvars, svars>>

(***************************************************************************)
(* group(prefix, callback).  The callback is run synchronously with        *)
(* tempRouter, an object that has the six registration methods and nothing *)
(* else.  What the callback does is a list of calls:                       *)
(*   "route"        tempRouter.<method>(path, ...handlers)                 *)
(*   "handleGroup"  tempRouter.group(path, inner callback): tempRouter has *)
(*                  no such method, the call throws a TypeError            *)
(*   "appGroup"     app.group(path, inner callback) on the application     *)
(* An exception ends the callback and leaves group.                        *)
(***************************************************************************)
RouteOp(method, path, handlers) ==
    [kind |-> "route", method |-> method, path |-> path,
     handlers |-> handlers, ops |-> <<>>]

GroupOp(kind, prefix, ops) ==
    [kind |-> kind, method |-> "", path |-> prefix, handlers |-> <<>>, ops |-> ops]

\* a callback whose tempRouter methods forget the prefix
RECURSIVE RunCallbackNoPrefix(_, _, _)
RunCallbackNoPrefix(rts, prefix, ops) ==
    IF ops = <<>> THEN [routes |-> rts, threw |-> FALSE]
    ELSE LET op == Head(ops)
         IN IF op.kind = "route"
            THEN IF parseHandlersThrows(op.handlers)
                 THEN [routes |-> rts, threw |-> TRUE]
                 ELSE RunCallbackNoPrefix(
                          Append(rts, [method |-> op.method, path |-> op.path,
                                       handlers |-> op.handlers]),
                          prefix, Tail(ops))
            ELSE [routes |-> rts, threw |-> TRUE]

\* callback(tempRouter): the route table it leaves and whether it threw
RECURSIVE RunCallback(_, _, _)
RunCallback(rts, prefix, ops) ==
    IF ops = <<>> THEN [routes |-> rts, threw |-> FALSE]
    ELSE LET op == Head(ops)
         IN IF op.kind = "route"
            THEN \* originalMethods[method](prefix + path, ...handlers)
                 IF parseHandlersThrows(op.handlers)
                 THEN [routes |-> rts, threw |-> TRUE]
                 ELSE RunCallback(
                          Append(rts, [method |-> op.method,
                                       path |-> prefix \o op.path,
                                       handlers |-> op.handlers]),
                          prefix, Tail(ops))
            ELSE IF op.kind = "handleGroup"
            THEN [routes |-> rts, threw |-> TRUE]
            ELSE \* this.group of the application: its own prefix only
                 LET inner == RunCallback(rts, op.path, op.ops)
                 IN IF inner.threw THEN inner
                    ELSE RunCallback(inner.routes, prefix, Tail(ops))

group(prefix, ops) ==
    /\ stack = <<>>
    /\ LET done == RunCallback(routes, prefix, ops)
       IN /\ routes' = done.routes
          /\ lastCall' = Call("group", <<prefix, ops>>, done.threw, "this")
    /\ UNCHANGED <<middlewares, reqvars, mvars, bvars, svars>>

(***************************************************************************)
(* handleRequest.  The URL is split at its first "?"; the route table is   *)
(* scanned in order.                                                       *)
(***************************************************************************)
\* new URL(req.url, base).pathname, for a url that is a path and an
\* optional query
PathnameOf(url) ==
    IF Includes(url, "?")
    THEN LET i == CHOOSE k \in 1..Len(url) :
                    url[k] = "?" /\ \A j \in 1..(k-1) : url[j] # "?"
         IN SubSeq(url, 1, i-1)
    ELSE url

\* the loop over this.#routes: the first entry of the request's method whose
\* test matches or throws ends the scan
RECURSIVE ScanRoutes(_, _, _, _)
ScanRoutes(rts, i, method, pathname) ==
    IF i > Len(rts)
    THEN [route |-> 0, threw |-> FALSE, params |-> NoParams]
    ELSE IF rts[i].method # method
         THEN ScanRoutes(rts, i+1, method, pathname)
         ELSE LET t == RouteTest(rts[i].path, pathname)
              IN IF t.threw THEN [route |-> 0, threw |-> TRUE, params |-> NoParams]
                 ELSE IF t.matched
                      THEN [route |-> i, threw |-> FALSE, params |-> t.params]
                      ELSE ScanRoutes(rts, i+1, method, pathname)

\* a scan that prefers exact routes to parameterized ones over the whole table
FindRouteExactFirst(rts, method, pathname) ==
    LET exact == {i \in 1..Len(rts) :
                     rts[i].method = method /\ rts[i].path = pathname}
    IN IF exact # {}
       THEN [route |-> CHOOSE i \in exact : \A j \in exact : i <= j,
             threw |-> FALSE, params |-> NoParams]
       ELSE ScanRoutes(rts, 1, method, pathname)

\* a scan that does not compare the methods
FindRouteAnyMethod(rts, method, pathname) ==
    ScanRoutes([i \in 1..Len(rts) |-> [rts[i] EXCEPT !.method = method]],
               1, method, pathname)

\* the route handleRequest settles on: route is its place in the table, 0
\* when the scan finds none
FindRoute(rts, method, pathname) == ScanRoutes(rts, 1, method, pathname)

\* a call of runNext that starts one position further than it was asked to
NewActSkips(idx, parent, awaited) ==
    [idx |-> idx + 1, st |-> "called", hres |-> "none", parent |-> parent,
     awaited |-> awaited, child |-> 0, nexts |-> 0, awaits |-> 0]

\* a call of runNext(index) that has not yet run a statement; the chain is
\* indexed from 1 here and from 0 in the code.  parent is the call of runNext
\* it was made from (0: from middlewarePipeline), awaited tells whether that
\* call awaits it (await runNext(index + 1)) or not (the continuation)
NewAct(idx, parent, awaited) ==
    [idx |-> idx, st |-> "called", hres |-> "none", parent |-> parent,
     awaited |-> awaited, child |-> 0, nexts |-> 0, awaits |-> 0]

\* a chain that runs the route's handlers before the global middleware
allHandlersRouteFirst(mws, route) == route.handlers \o mws

\* const allHandlers = [...this.#middlewares, ...route.handlers]
allHandlers(mws, route) == mws \o route.handlers

HandleRequest(method, url) ==
    /\ stack = <<>>
    /\ LET pathname == PathnameOf(url)
           found == FindRoute(routes, method, pathname)
           r == Len(rq) + 1
       IN IF found.threw
          THEN \* new RegExp threw: the exception leaves handleRequest
               /\ rq' = Append(rq, [method |-> method, url |-> url,
                                    pathname |-> <<>>, params |-> NoParams,
                                    route |-> 0, chain |-> <<>>, threw |-> TRUE])
               /\ res' = Append(res, FreshResponse)
               /\ acts' = Append(acts, <<>>)
               /\ stack' = stack
          ELSE IF found.route # 0
          THEN /\ rq' = Append(rq, [method |-> method, url |-> url,
                                    pathname |-> pathname, params |-> found.params,
                                    route |-> found.route,
                                    chain |-> allHandlers(middlewares, routes[found.route]),
                                    threw |-> FALSE])
               /\ res' = Append(res, enhanceResponse(FreshResponse))
               /\ acts' = Append(acts, <<NewAct(1, 0, FALSE)>>)
               /\ stack' = Append(stack, [r |-> r, a |-> 1])
          ELSE /\ rq' = Append(rq, [method |-> method, url |-> url,
                                    pathname |-> <<>>, params |-> NoParams,
                                    route |-> 0, chain |-> <<>>, threw |-> FALSE])
               /\ res' = Append(res,
                            end(writeHead(FreshResponse, 404, "text/plain").res,
                                "Not Found\n", ByRouter))
               /\ acts' = Append(acts, <<>>)
               /\ stack' = stack
    /\ log' = Append(log, <<>>)
    /\ extraNext' = Append(extraNext, 0)
    /\ UNCHANGED <<limits, appvars, mvars>>

(***************************************************************************)
(* middlewarePipeline.  Each call of runNext is an entry of acts[r]:       *)
(*   st    where the call stands                                           *)
(*         "called"     entered, no statement run yet                      *)
(*         "handler"    at  await currentFn(...)                           *)
(*         "child"      at  await runNext(index + 1)                       *)
(*         "ended"      returned at the writableEnded test                 *)
(*         "exhausted"  returned at the index test                         *)
(*         "done"       returned after the try block                       *)
(*         "caught"     returned after the catch block                     *)
(*         "rejected"   the catch block itself threw: the promise of this  *)
(*                      call is rejected                                   *)
(*   hres  where the handler it invoked stands: "none", "running",         *)
(*         "suspended" (at an await of its own), "returned", "threw"       *)
(* JavaScript runs one synchronous stretch at a time: only the call on top *)
(* of the stack moves, and suspended calls are resumed, in any order, only *)
(* when the stack is empty.                                                *)
(***************************************************************************)
Terminal == {"ended", "exhausted", "done", "caught", "rejected"}

Running(r, a) == stack # <<>> /\ stack[Len(stack)] = [r |-> r, a |-> a]

Pop == SubSeq(stack, 1, Len(stack) - 1)

InHandler(r, a) ==
    /\ Running(r, a)
    /\ acts[r][a].st = "handler"
    /\ acts[r][a].hres = "running"

\* a catch block that writes the 500 header and forgets to end the response
CatchBlockNoEnd(rs) ==
    IF ~rs.ended
    THEN LET w == writeHead(rs, 500, "text/plain")
         IN IF w.threw
            THEN [st |-> "rejected", res |-> rs]
            ELSE [st |-> "caught", res |-> w.res]
    ELSE [st |-> "caught", res |-> rs]

\* a catch block that writes its 500 whatever the state of the response
CatchBlockBlind(rs) ==
    [st |-> "caught",
     res |-> [rs EXCEPT !.headersSent = TRUE, !.ended = TRUE, !.status = 500,
                        !.ctype = "text/plain", !.body = "Internal Server Error\n",
                        !.endedBy = ByPipeline]]

\* a catch block that only logs the error
CatchBlockSilent(rs) == [st |-> "caught", res |-> rs]

\* the catch block of runNext: st is how the call of runNext ends
CatchBlock(rs) ==
    IF ~rs.ended
    THEN LET w == writeHead(rs, 500, "text/plain")
         IN IF w.threw
            THEN [st |-> "rejected", res |-> rs]
            ELSE [st |-> "caught",
                  res |-> end(w.res, "Internal Server Error\n", ByPipeline)]
    ELSE [st |-> "caught", res |-> rs]

\* runNext without its writableEnded test
EnterUnchecked(r, a) ==
    /\ Running(r, a)
    /\ acts[r][a].st = "called"
    /\ IF acts[r][a].idx > Len(rq[r].chain)
       THEN /\ acts' = [acts EXCEPT ![r][a].st = "exhausted"]
            /\ stack' = Pop
            /\ log' = log
       ELSE /\ acts' = [acts EXCEPT ![r][a].st = "handler", ![r][a].hres = "running"]
            /\ stack' = stack
            /\ log' = [log EXCEPT ![r] = Append(@, acts[r][a].idx)]
    /\ UNCHANGED <<rq, res, extraNext, limits, appvars, mvars, bvars, svars>>

\* a runNext that answers 404 when it runs past the last handler with the
\* response still unwritten
EnterAnswers(r, a) ==
    /\ Running(r, a)
    /\ acts[r][a].st = "called"
    /\ IF res[r].ended
       THEN /\ acts' = [acts EXCEPT ![r][a].st = "ended"]
            /\ stack' = Pop
            /\ log' = log
            /\ res' = res
       ELSE IF acts[r][a].idx > Len(rq[r].chain)
       THEN /\ acts' = [acts EXCEPT ![r][a].st = "exhausted"]
            /\ stack' = Pop
            /\ log' = log
            /\ res' = [res EXCEPT ![r] =
                         IF @.headersSent THEN @
                         ELSE end(writeHead(@, 404, "text/plain").res,
                                  "Not Found\n", ByPipeline)]
       ELSE /\ acts' = [acts EXCEPT ![r][a].st = "handler", ![r][a].hres = "running"]
            /\ stack' = stack
            /\ log' = [log EXCEPT ![r] = Append(@, acts[r][a].idx)]
            /\ res' = res
    /\ UNCHANGED <<rq, extraNext, limits, appvars, mvars, bvars, svars>>

\* a runNext whose continuation is guarded: a call made by a continuation
\* that was already invoked returns at once
EnterOnce(r, a) ==
    /\ Running(r, a)
    /\ acts[r][a].st = "called"
    /\ IF res[r].ended
       THEN /\ acts' = [acts EXCEPT ![r][a].st = "ended"]
            /\ stack' = Pop
            /\ log' = log
       ELSE IF \E b \in 1..Len(acts[r]) :
                  /\ b # a
                  /\ acts[r][a].parent # 0
                  /\ acts[r][b].parent = acts[r][a].parent
                  /\ acts[r][b].st # "called"
       THEN /\ acts' = [acts EXCEPT ![r][a].st = "done"]
            /\ stack' = Pop
            /\ log' = log
       ELSE IF acts[r][a].idx > Len(rq[r].chain)
       THEN /\ acts' = [acts EXCEPT ![r][a].st = "exhausted"]
            /\ stack' = Pop
            /\ log' = log
       ELSE /\ acts' = [acts EXCEPT ![r][a].st = "handler", ![r][a].hres = "running"]
            /\ stack' = stack
            /\ log' = [log EXCEPT ![r] = Append(@, acts[r][a].idx)]
    /\ UNCHANGED <<rq, res, extraNext, limits, appvars, mvars, bvars, svars>>

\* runNext from its first statement to the invocation of the handler
Enter(r, a) ==
    /\ Running(r, a)
    /\ acts[r][a].st = "called"
    /\ IF res[r].ended
       THEN /\ acts' = [acts EXCEPT ![r][a].st = "ended"]
            /\ stack' = Pop
            /\ log' = log
       ELSE IF acts[r][a].idx > Len(rq[r].chain)
       THEN /\ acts' = [acts EXCEPT ![r][a].st = "exhausted"]
            /\ stack' = Pop
            /\ log' = log
       ELSE /\ acts' = [acts EXCEPT ![r][a].st = "handler", ![r][a].hres = "running"]
            /\ stack' = stack
            /\ log' = [log EXCEPT ![r] = Append(@, acts[r][a].idx)]
    /\ UNCHANGED <<rq, res, extraNext, limits, appvars, mvars, bvars, svars>>

(***************************************************************************)
(* What a running handler may do, one step at a time.                      *)
(***************************************************************************)
\* the handler ends the response: res.json(...) on an unwritten response,
\* res.end(...) after a writeHead of its own
HEnd(r, a) ==
    /\ InHandler(r, a)
    /\ ~res[r].ended
    /\ res' = [res EXCEPT ![r] =
                 IF @.headersSent THEN end(@, "handler", acts[r][a].idx)
                 ELSE end(writeHead(@, @.status, "application/json").res,
                          "handler", acts[r][a].idx)]
    /\ UNCHANGED <<rq, acts, log, stack, extraNext, limits, appvars, mvars, bvars, svars>>

\* the handler writes the header and does not end the response
HWriteHead(r, a) ==
    /\ InHandler(r, a)
    /\ ~res[r].headersSent
    /\ res' = [res EXCEPT ![r] = writeHead(@, 200, "application/json").res]
    /\ UNCHANGED <<rq, acts, log, stack, extraNext, limits, appvars, mvars, bvars, svars>>

\* a continuation that invokes the next handler itself, without the tests
\* of runNext
HNextDirect(r, a) ==
    /\ InHandler(r, a)
    /\ rq[r].chain[acts[r][a].idx].length = 3
    /\ acts[r][a].nexts = 0 \/ extraNext[r] < limits.extraNext
    /\ IF acts[r][a].idx + 1 > Len(rq[r].chain)
       THEN /\ acts' = [acts EXCEPT ![r] =
                          Append([@ EXCEPT ![a].nexts = @ + 1],
                                 [NewAct(acts[r][a].idx + 1, a, FALSE) EXCEPT
                                     !.st = "exhausted"])]
            /\ stack' = stack
            /\ log' = log
       ELSE /\ acts' = [acts EXCEPT ![r] =
                          Append([@ EXCEPT ![a].nexts = @ + 1],
                                 [NewAct(acts[r][a].idx + 1, a, FALSE) EXCEPT
                                     !.st = "handler", !.hres = "running"])]
            /\ stack' = Append(stack, [r |-> r, a |-> Len(acts[r]) + 1])
            /\ log' = [log EXCEPT ![r] = Append(@, acts[r][a].idx + 1)]
    /\ extraNext' = [extraNext EXCEPT ![r] =
                       IF acts[r][a].nexts = 0 THEN @ ELSE @ + 1]
    /\ UNCHANGED <<rq, res, limits, appvars, mvars, bvars, svars>>

\* a 3-argument handler invokes its continuation: () => runNext(index + 1)
HNext(r, a) ==
    /\ InHandler(r, a)
    /\ rq[r].chain[acts[r][a].idx].length = 3
    /\ acts[r][a].nexts = 0 \/ extraNext[r] < limits.extraNext
    /\ acts' = [acts EXCEPT ![r] =
                  Append([@ EXCEPT ![a].nexts = @ + 1],
                         NewAct(acts[r][a].idx + 1, a, FALSE))]
    /\ stack' = Append(stack, [r |-> r, a |-> Len(acts[r]) + 1])
    /\ extraNext' = [extraNext EXCEPT ![r] =
                       IF acts[r][a].nexts = 0 THEN @ ELSE @ + 1]
    /\ UNCHANGED <<rq, res, log, limits, appvars, mvars, bvars, svars>>

AwaitsUsed(r) == Cardinality({b \in 1..Len(acts[r]) : acts[r][b].awaits > 0})

\* the handler suspends at an await of its own; runNext is suspended at
\* await currentFn(...)
HAwait(r, a) ==
    /\ InHandler(r, a)
    /\ acts[r][a].awaits = 0
    /\ AwaitsUsed(r) < limits.awaits
    /\ acts' = [acts EXCEPT ![r][a].hres = "suspended", ![r][a].awaits = @ + 1]
    /\ stack' = Pop
    /\ UNCHANGED <<rq, res, log, extraNext, limits, appvars, mvars, bvars, svars>>

\* a runNext that goes on to runNext(index + 1) after a 3-argument handler
\* as it does after a 2-argument one
HReturnAdvances(r, a) ==
    /\ InHandler(r, a)
    /\ IF rq[r].chain[acts[r][a].idx].length = 3
       THEN /\ acts' = [acts EXCEPT ![r] =
                          Append([@ EXCEPT ![a].hres = "returned", ![a].st = "child",
                                           ![a].child = Len(acts[r]) + 1],
                                 NewAct(acts[r][a].idx + 1, a, TRUE))]
            /\ stack' = Append(Pop, [r |-> r, a |-> Len(acts[r]) + 1])
       ELSE /\ acts' = [acts EXCEPT ![r][a].hres = "returned"]
            /\ stack' = Pop
    /\ UNCHANGED <<rq, res, log, extraNext, limits, appvars, mvars, bvars, svars>>

\* the handler returns (an async handler's promise is fulfilled).  After a
\* 3-argument handler runNext has nothing left to do but return, which no
\* statement of the program can tell from having returned already: the call
\* is marked "done" here; after a 2-argument handler see AfterHandler
HReturn(r, a) ==
    /\ InHandler(r, a)
    /\ acts' = [acts EXCEPT ![r][a].hres = "returned",
                            ![r][a].st = IF rq[r].chain[acts[r][a].idx].length = 3
                                         THEN "done" ELSE @]
    /\ stack' = Pop
    /\ UNCHANGED <<rq, res, log, extraNext, limits, appvars, mvars, bvars, svars>>

\* a handler that is not async throws before it returns: the catch block
\* runs at once
HThrow(r, a) ==
    /\ InHandler(r, a)
    /\ acts[r][a].awaits = 0
    /\ LET c == CatchBlock(res[r])
       IN /\ acts' = [acts EXCEPT ![r][a].hres = "threw", ![r][a].st = c.st]
          /\ res' = [res EXCEPT ![r] = c.res]
    /\ stack' = Pop
    /\ UNCHANGED <<rq, log, extraNext, limits, appvars, mvars, bvars, svars>>

\* the promise the handler returned is rejected
HReject(r, a) ==
    /\ InHandler(r, a)
    /\ acts' = [acts EXCEPT ![r][a].hres = "threw"]
    /\ stack' = Pop
    /\ UNCHANGED <<rq, res, log, extraNext, limits, appvars, mvars, bvars, svars>>

(***************************************************************************)
(* Resumptions, taken from the event loop when nothing is running.         *)
(***************************************************************************)
\* a resumption that does not wait for the running stretch to finish: the
\* suspended handler goes on while another handler is executing
HResumeAnytime(r, a) ==
    /\ acts[r][a].st = "handler"
    /\ acts[r][a].hres = "suspended"
    /\ acts' = [acts EXCEPT ![r][a].hres = "running"]
    /\ stack' = Append(stack, [r |-> r, a |-> a])
    /\ UNCHANGED <<rq, res, log, extraNext, limits, appvars, mvars, bvars, svars>>

\* a resumption that waits for the requests dispatched earlier: a suspended
\* handler goes on only when no earlier request has one suspended
HResumeInOrder(r, a) ==
    /\ stack = <<>>
    /\ \A q \in 1..(r - 1) : \A b \in 1..Len(acts[q]) : acts[q][b].hres # "suspended"
    /\ acts[r][a].st = "handler"
    /\ acts[r][a].hres = "suspended"
    /\ acts' = [acts EXCEPT ![r][a].hres = "running"]
    /\ stack' = <<[r |-> r, a |-> a]>>
    /\ UNCHANGED <<rq, res, log, extraNext, limits, appvars, mvars, bvars, svars>>

\* a suspended handler goes on
HResume(r, a) ==
    /\ stack = <<>>
    /\ acts[r][a].st = "handler"
    /\ acts[r][a].hres = "suspended"
    /\ acts' = [acts EXCEPT ![r][a].hres = "running"]
    /\ stack' = <<[r |-> r, a |-> a]>>
    /\ UNCHANGED <<rq, res, log, extraNext, limits, appvars, mvars, bvars, svars>>

\* a runNext that calls the 2-argument handler without awaiting it: it goes
\* on as soon as the handler has returned its promise
AfterHandlerEarly(r, a) ==
    /\ stack = <<>>
    /\ acts[r][a].st = "handler"
    /\ acts[r][a].hres \in {"returned", "suspended"}
    /\ rq[r].chain[acts[r][a].idx].length = 2
    /\ acts' = [acts EXCEPT ![r] =
                  Append([@ EXCEPT ![a].st = "child",
                                   ![a].child = Len(acts[r]) + 1],
                         NewAct(acts[r][a].idx + 1, a, TRUE))]
    /\ stack' = <<[r |-> r, a |-> Len(acts[r]) + 1]>>
    /\ UNCHANGED <<rq, res, log, extraNext, limits, appvars, mvars, bvars, svars>>

\* await currentFn(...) of a 2-argument handler is over: the call goes on
\* to await runNext(index + 1)
AfterHandler(r, a) ==
    /\ stack = <<>>
    /\ acts[r][a].st = "handler"
    /\ acts[r][a].hres = "returned"
    /\ rq[r].chain[acts[r][a].idx].length = 2
    /\ acts' = [acts EXCEPT ![r] =
                  Append([@ EXCEPT ![a].st = "child",
                                   ![a].child = Len(acts[r]) + 1],
                         NewAct(acts[r][a].idx + 1, a, TRUE))]
    /\ stack' = <<[r |-> r, a |-> Len(acts[r]) + 1]>>
    /\ UNCHANGED <<rq, res, log, extraNext, limits, appvars, mvars, bvars, svars>>

\* await currentFn(...) throws the handler's rejection into the catch block
CatchRejection(r, a) ==
    /\ stack = <<>>
    /\ acts[r][a].st = "handler"
    /\ acts[r][a].hres = "threw"
    /\ LET c == CatchBlock(res[r])
       IN /\ acts' = [acts EXCEPT ![r][a].st = c.st]
          /\ res' = [res EXCEPT ![r] = c.res]
    /\ UNCHANGED <<rq, log, stack, extraNext, limits, appvars, mvars, bvars, svars>>

\* await runNext(index + 1) is over: the call returns, or the rejection of
\* the inner call is thrown into the catch block
ChildSettled(r, a) ==
    /\ stack = <<>>
    /\ acts[r][a].st = "child"
    /\ acts[r][acts[r][a].child].st \in Terminal
    /\ IF acts[r][acts[r][a].child].st = "rejected"
       THEN LET c == CatchBlock(res[r])
            IN /\ acts' = [acts EXCEPT ![r][a].st = c.st]
               /\ res' = [res EXCEPT ![r] = c.res]
       ELSE /\ acts' = [acts EXCEPT ![r][a].st = "done"]
            /\ res' = res
    /\ UNCHANGED <<rq, log, stack, extraNext, limits, appvars, mvars, bvars, svars>>

\* each step, for any request in flight and any of its calls of runNext
SomeEnter == \E r \in 1..Len(rq) : \E a \in 1..Len(acts[r]) : Enter(r, a)
SomeHEnd == \E r \in 1..Len(rq) : \E a \in 1..Len(acts[r]) : HEnd(r, a)
SomeHWriteHead == \E r \in 1..Len(rq) : \E a \in 1..Len(acts[r]) : HWriteHead(r, a)
SomeHNext == \E r \in 1..Len(rq) : \E a \in 1..Len(acts[r]) : HNext(r, a)
SomeHAwait == \E r \in 1..Len(rq) : \E a \in 1..Len(acts[r]) : HAwait(r, a)
SomeHReturn == \E r \in 1..Len(rq) : \E a \in 1..Len(acts[r]) : HReturn(r, a)
SomeHThrow == \E r \in 1..Len(rq) : \E a \in 1..Len(acts[r]) : HThrow(r, a)
SomeHReject == \E r \in 1..Len(rq) : \E a \in 1..Len(acts[r]) : HReject(r, a)
SomeHResume == \E r \in 1..Len(rq) : \E a \in 1..Len(acts[r]) : HResume(r, a)
SomeAfterHandler == \E r \in 1..Len(rq) : \E a \in 1..Len(acts[r]) : AfterHandler(r, a)
SomeCatchRejection == \E r \in 1..Len(rq) : \E a \in 1..Len(acts[r]) : CatchRejection(r, a)
SomeChildSettled == \E r \in 1..Len(rq) : \E a \in 1..Len(acts[r]) : ChildSettled(r, a)

(***************************************************************************)
(* Body parsers (bodyParser.js): json, urlencoded, raw and text are async  *)
(* 3-argument handlers.  The incoming message is a stream: it emits data,  *)
(* end and error events to whoever reads it (the listeners of parseJSON,   *)
(* or a for await loop), one event per turn of the event loop.             *)
(*   inbound   the message: content-type, content-length, whether its      *)
(*             bytes are valid JSON, the stream (st, reader, events emitted,*)
(*             bytes received), req.body and every assignment made to it    *)
(*             (by which call of runNext, which value)                      *)
(*   parsing   per call of runNext: pc ("start", "await" at await           *)
(*             parseJSON, "iter" in for await, "ret" after next(), "done"), *)
(*             bytes it received, the alreadyResolved flag and the promise  *)
(*             of parseJSON, and whether it read the stream                 *)
(***************************************************************************)
Limit == 2          \* options.limit of every parser, in bytes
MaxParsers == 2     \* body parsers registered with use()
MaxEvents == 3      \* events the stream of a request emits
MaxCalls == MaxParsers + 2

Parser(name) == [name |-> name, length |-> 3, fn |-> TRUE]
ParserNames == {"json", "urlencoded", "raw", "text"}
IsParser(h) == h.name \in ParserNames

CtJson == "application/json"
CtForm == "application/x-www-form-urlencoded"
CtText == "text/plain"

\* contentType.includes(...) of json and of urlencoded, for these types
Wanted(name) == IF name = "json" THEN CtJson ELSE CtForm

NoMessage ==
    [ctype |-> "", hasClen |-> FALSE, clen |-> 0, valid |-> TRUE,
     wild |-> FALSE, timer |-> FALSE,
     st |-> "open", reader |-> 0, events |-> 0, received |-> 0,
     body |-> "undefined", sets |-> <<>>]

FreshParsing == [pc |-> "start", got |-> 0, flag |-> FALSE,
                 promise |-> "pending", read |-> FALSE]
NoParsing == [a \in 1..MaxCalls |-> FreshParsing]

\* the message of a request: its headers, its payload, whether its events
\* come in the order of a stream (data*, then end or error) or in any order,
\* and whether a timer is armed that ends the response when it fires
Messages ==
    {[NoMessage EXCEPT !.ctype = c, !.hasClen = h[1], !.clen = h[2],
                       !.valid = v, !.wild = w[1], !.timer = w[2]] :
        c \in {CtJson, CtForm, CtText},
        h \in {<<FALSE, 0>>} \cup {<<TRUE, n>> : n \in 1..(Limit + 1)},
        v \in BOOLEAN,
        w \in BOOLEAN \X BOOLEAN}

ByTimer == -3

\* res.writeHead(code, {'Content-Type': 'text/plain'}); res.end(text)
Respond(rs, code, text, who) ==
    LET w == writeHead(rs, code, "text/plain")
    IN IF w.threw THEN [threw |-> TRUE, res |-> rs]
       ELSE [threw |-> FALSE, res |-> end(w.res, text, who)]

\* a catch block of json() without its test of the response's state
CatchOfParserUnguarded(name, p, rs, who) ==
    IF p = "large" THEN Respond(rs, 413, "Payload Too Large", who)
    ELSE Respond(rs, 400, "Bad Request: Invalid JSON", who)

\* what the catch block of a parser does with the failure p of its read
CatchOfParser(name, p, rs, who) ==
    IF name = "json" /\ (rs.headersSent \/ rs.ended)
    THEN [threw |-> FALSE, res |-> rs]
    ELSE IF p = "large" THEN Respond(rs, 413, "Payload Too Large", who)
    ELSE Respond(rs, 400,
                 IF name = "json" THEN "Bad Request: Invalid JSON"
                 ELSE IF name = "urlencoded"
                      THEN "Bad Request: Invalid URL-encoded data"
                      ELSE "Bad Request",
                 who)

\* the async handler is over: its promise is fulfilled, or rejected when it
\* threw outside its try block
ParserOver(r, a, threw) ==
    [acts EXCEPT ![r][a].hres = IF threw THEN "threw" ELSE "returned",
                 ![r][a].st = IF threw THEN @ ELSE "done"]

\* next(): runNext(index + 1) is called from the handler of a
ParserNext(r, a) ==
    [acts EXCEPT ![r] = Append([@ EXCEPT ![a].nexts = @ + 1, ![a].hres = "running"],
                               NewAct(acts[r][a].idx + 1, a, FALSE))]

ParserAt(r, a, pc) ==
    /\ r = 1
    /\ a \in 1..Len(acts[r])
    /\ acts[r][a].st = "handler"
    /\ IsParser(rq[r].chain[acts[r][a].idx])
    /\ parsing[a].pc = pc

NameOf(r, a) == rq[r].chain[acts[r][a].idx].name

\* a parser that does not look at the content-length header
TooLongNever(m) == FALSE

\* the early rejection: if (req.headers['content-length']) { bodySize =
\* parseInt(...); if (bodySize > limit) ... }
TooLong(m) == m.hasClen /\ m.clen > Limit

\* a parser that never skips
SkipsNever(name, m) == FALSE

\* json and urlencoded pass the request on when req.body is set or the
\* content-type is not theirs; raw and text have no such test
Skips(name, m) ==
    /\ name \in {"json", "urlencoded"}
    /\ m.body # "undefined" \/ m.ctype # Wanted(name)

\* the handler from its first statement to its first await, or to its return
PStart(r, a) ==
    /\ ParserAt(r, a, "start")
    /\ InHandler(r, a)
    /\ IF Skips(NameOf(r, a), inbound)
       THEN /\ acts' = ParserNext(r, a)
            /\ stack' = Append(stack, [r |-> r, a |-> Len(acts[r]) + 1])
            /\ parsing' = [parsing EXCEPT ![a].pc = "ret"]
            /\ UNCHANGED <<res, inbound>>
       ELSE IF TooLong(inbound)
       THEN LET w == Respond(res[r], 413, "Payload Too Large", acts[r][a].idx)
            IN /\ res' = [res EXCEPT ![r] = w.res]
               /\ acts' = ParserOver(r, a, w.threw)
               /\ stack' = Pop
               /\ parsing' = [parsing EXCEPT ![a].pc = "done"]
               /\ UNCHANGED inbound
       ELSE /\ acts' = [acts EXCEPT ![r][a].hres = "suspended"]
            /\ stack' = Pop
            /\ parsing' = [parsing EXCEPT
                             ![a].pc = IF NameOf(r, a) = "json" THEN "await" ELSE "iter",
                             ![a].read = TRUE]
            /\ inbound' = [inbound EXCEPT !.reader = a]
            /\ UNCHANGED res
    /\ UNCHANGED <<rq, log, extraNext, limits, appvars, mvars, svars>>

\* next() has returned: the handler returns
PReturn(r, a) ==
    /\ ParserAt(r, a, "ret")
    /\ InHandler(r, a)
    /\ acts' = ParserOver(r, a, FALSE)
    /\ stack' = Pop
    /\ parsing' = [parsing EXCEPT ![a].pc = "done"]
    /\ UNCHANGED <<rq, res, log, extraNext, limits, inbound, appvars, mvars, svars>>

\* the value a parser assigns to req.body: JSON.parse(body) or {} for json,
\* Object.fromEntries(new URLSearchParams(body)), Buffer.concat(chunks), body
Parsed(name, got) ==
    IF name = "json" THEN (IF got = 0 THEN "{}" ELSE "value")
    ELSE IF name = "urlencoded" THEN "entries"
    ELSE IF name = "raw" THEN "buffer"
    ELSE "string"

\* how the read of a json parser ends when the stream ends: JSON.parse
JsonRead(got, valid) ==
    IF got = 0 \/ valid THEN "ok" ELSE "invalid"

\* the handler goes on after its read of the stream is over with outcome p
\* ("ok", "large", "invalid", "error"): it assigns req.body and calls next(),
\* or its catch block answers and it returns.  The stream part of inbound is
\* set by the caller through m
AfterRead(r, a, p, m, got) ==
    LET c == CatchOfParser(NameOf(r, a), p, res[r], acts[r][a].idx)
    IN IF p = "ok"
       THEN /\ inbound' = [m EXCEPT !.body = Parsed(NameOf(r, a), got),
                                    !.sets = Append(@, [by |-> a,
                                                        val |-> Parsed(NameOf(r, a), got)])]
            /\ acts' = ParserNext(r, a)
            /\ stack' = <<[r |-> r, a |-> a], [r |-> r, a |-> Len(acts[r]) + 1]>>
            /\ res' = res
       ELSE /\ inbound' = m
            /\ acts' = ParserOver(r, a, c.threw)
            /\ stack' = <<>>
            /\ res' = [res EXCEPT ![r] = c.res]

\* the stream may emit: in order while it is open; to the listeners of
\* parseJSON, which stay attached, in any order when the message is wild
Reading(r) ==
    /\ r = 1 /\ r <= Len(rq)
    /\ stack = <<>>
    /\ inbound.reader # 0
    /\ inbound.events < MaxEvents

CanEmit(r) ==
    /\ Reading(r)
    /\ \/ inbound.st = "open"
       \/ inbound.wild /\ NameOf(r, inbound.reader) = "json"

Emitted(m, n, st) ==
    [m EXCEPT !.events = @ + 1, !.received = @ + n, !.st = st]

\* req.resume() after the listeners were removed, or the return of the
\* iterator: nobody reads the rest
Dropped(m) == [m EXCEPT !.reader = 0, !.st = "ended"]

\* a parser that accumulates whatever it receives
CrossesNever(got, n) == FALSE

\* bytesReceived += chunk.length; if (bytesReceived > limit)
Crosses(got, n) == got + n > Limit

\* a 'data' event with a chunk of n bytes
StreamData(r, n) ==
    /\ CanEmit(r)
    /\ LET a == inbound.reader
           L == parsing[a]
           m == Emitted(inbound, n, inbound.st)
       IN IF NameOf(r, a) = "json"
          THEN IF L.flag
               THEN /\ inbound' = m
                    /\ UNCHANGED <<acts, stack, res, parsing>>
               ELSE IF Crosses(L.got, n)
               THEN /\ parsing' = [parsing EXCEPT ![a].got = L.got + n,
                                     ![a].flag = TRUE, ![a].promise = "large",
                                     ![a].pc = "done"]
                    /\ AfterRead(r, a, "large", Dropped(m), L.got + n)
               ELSE /\ parsing' = [parsing EXCEPT ![a].got = L.got + n]
                    /\ inbound' = m
                    /\ UNCHANGED <<acts, stack, res>>
          ELSE IF Crosses(L.got, n)
               THEN /\ parsing' = [parsing EXCEPT ![a].got = L.got + n,
                                     ![a].pc = "done"]
                    /\ AfterRead(r, a, "large", Dropped(m), L.got + n)
               ELSE /\ parsing' = [parsing EXCEPT ![a].got = L.got + n]
                    /\ inbound' = m
                    /\ UNCHANGED <<acts, stack, res>>
    /\ UNCHANGED <<rq, log, extraNext, limits, appvars, mvars, svars>>

\* the 'end' event
StreamEnd(r) ==
    /\ CanEmit(r)
    /\ LET a == inbound.reader
           L == parsing[a]
           m == Emitted(inbound, 0, "ended")
       IN IF NameOf(r, a) = "json"
          THEN IF L.flag
               THEN /\ inbound' = m
                    /\ UNCHANGED <<acts, stack, res, parsing>>
               ELSE LET p == JsonRead(L.got, inbound.valid)
                    IN /\ parsing' = [parsing EXCEPT ![a].flag = TRUE,
                                        ![a].promise = p,
                                        ![a].pc = IF p = "ok" THEN "ret" ELSE "done"]
                       /\ AfterRead(r, a, p, m, L.got)
          ELSE /\ parsing' = [parsing EXCEPT ![a].pc = "ret"]
               /\ AfterRead(r, a, "ok", [m EXCEPT !.reader = 0], L.got)
    /\ UNCHANGED <<rq, log, extraNext, limits, appvars, mvars, svars>>

\* the 'error' event
StreamError(r) ==
    /\ CanEmit(r)
    /\ LET a == inbound.reader
           L == parsing[a]
           m == Emitted(inbound, 0, "errored")
       IN IF NameOf(r, a) = "json"
          THEN IF L.flag
               THEN /\ inbound' = m
                    /\ UNCHANGED <<acts, stack, res, parsing>>
               ELSE /\ parsing' = [parsing EXCEPT ![a].flag = TRUE,
                                     ![a].promise = "error", ![a].pc = "done"]
                    /\ AfterRead(r, a, "error", m, L.got)
          ELSE /\ parsing' = [parsing EXCEPT ![a].pc = "done"]
               /\ AfterRead(r, a, "error", [m EXCEPT !.reader = 0], L.got)
    /\ UNCHANGED <<rq, log, extraNext, limits, appvars, mvars, svars>>

\* for await over a stream that has already ended: the loop is over at once,
\* without a chunk
IterDone(r, a) ==
    /\ ParserAt(r, a, "iter")
    /\ stack = <<>>
    /\ inbound.reader = a
    /\ inbound.st = "ended"
    /\ parsing' = [parsing EXCEPT ![a].pc = "ret"]
    /\ AfterRead(r, a, "ok", [inbound EXCEPT !.reader = 0], parsing[a].got)
    /\ UNCHANGED <<rq, log, extraNext, limits, appvars, mvars, svars>>

\* the timer of timeout() fires: if (!res.writableEnded)
\* res.status(408).json({ error: 'Request timeout' })
TimerFires(r) ==
    /\ r = 1 /\ r <= Len(rq)
    /\ stack = <<>>
    /\ inbound.timer
    /\ ~res[r].ended
    /\ ~res[r].headersSent
    /\ res' = [res EXCEPT ![r] =
                 end(writeHead(@, 408, "application/json").res, "Request timeout", ByTimer)]
    /\ inbound' = [inbound EXCEPT !.timer = FALSE]
    /\ UNCHANGED <<rq, acts, log, stack, extraNext, limits, parsing, appvars, mvars, svars>>

(***************************************************************************)
(* Response helpers (response.js).  json and send call writeHead with the  *)
(* pending status and then end; a value is modelled by its runtime shape.  *)
(***************************************************************************)
\* res.status(code): this.statusCode = code; return this
status(rs, code) == [rs EXCEPT !.status = code]

\* res.json(data)
json(rs, data, who) ==
    LET w == writeHead(rs, rs.status, "application/json")
    IN IF w.threw THEN [threw |-> TRUE, res |-> rs]
       ELSE [threw |-> FALSE, res |-> end(w.res, data, who)]

\* a value by its runtime shape: typeof, Buffer.isBuffer, and the text it
\* stands for
Shape(type, text) == [type |-> type, text |-> text]
Shapes ==
    {Shape("string", "Hello"), Shape("string", ""), Shape("buffer", "bytes"),
     Shape("object", "{users}"), Shape("array", "[1]"), Shape("null", "null"),
     Shape("number", "7"), Shape("boolean", "false"),
     Shape("undefined", "undefined")}

\* typeof body === 'object': objects, arrays, buffers and null
TypeofObject(v) == v.type \in {"object", "array", "buffer", "null"}

\* JSON.stringify(data): the JSON text, quoted for a string, and undefined
\* (no text) for undefined; end(undefined) writes no body
Stringify(v) ==
    IF v.type = "undefined" THEN ""
    ELSE IF v.type = "string" THEN <<"quoted", v.text>>
    ELSE <<"json", v.text>>

\* String(body)
String(v) == <<"text", v.text>>

\* the branch of res.send(body) a value takes, as the content type it
\* writes and the body it ends with; a dispatch that tests typeof first
SendBranchTypeofFirst(v) ==
    IF v.type = "string" THEN [ctype |-> "text/html", body |-> <<"raw", v.text>>]
    ELSE IF TypeofObject(v)
    THEN [ctype |-> "application/json", body |-> Stringify(v)]
    ELSE [ctype |-> "text/plain", body |-> String(v)]

\* res.send(body): string, then Buffer, then object, then the rest
SendBranch(v) ==
    IF v.type = "string" THEN [ctype |-> "text/html", body |-> <<"raw", v.text>>]
    ELSE IF v.type = "buffer"
    THEN [ctype |-> "application/octet-stream", body |-> <<"raw", v.text>>]
    ELSE IF TypeofObject(v)
    THEN [ctype |-> "application/json", body |-> Stringify(v)]
    ELSE [ctype |-> "text/plain", body |-> String(v)]

send(rs, body, who) ==
    LET b == SendBranch(body)
        w == writeHead(rs, rs.status, b.ctype)
    IN IF w.threw THEN [threw |-> TRUE, res |-> rs]
       ELSE [threw |-> FALSE, res |-> end(w.res, b.body, who)]

\* statusCode = 302
DefaultRedirect == 302

\* a redirect that writes the pending status
redirectPending(rs, url, statusCode, who) ==
    LET w == writeHead(rs, rs.status, "")
    IN IF w.threw THEN [threw |-> TRUE, res |-> rs]
       ELSE [threw |-> FALSE,
             res |-> end([w.res EXCEPT !.location = url], "", who)]

\* res.redirect(url, statusCode): writeHead(statusCode, {Location: url}); end()
redirect(rs, url, statusCode, who) ==
    LET w == writeHead(rs, statusCode, "")
    IN IF w.threw THEN [threw |-> TRUE, res |-> rs]
       ELSE [threw |-> FALSE,
             res |-> end([w.res EXCEPT !.location = url], "", who)]

\* res.status(c1).status(c2)...: each call returns the response it was
\* called on
RECURSIVE Chained(_, _)
Chained(rs, codes) ==
    IF codes = <<>> THEN rs
    ELSE Chained(status(rs, Head(codes)), Tail(codes))

(***************************************************************************)
(* rateLimit (shortcuts.js): a Map from client key to {count, resetTime},  *)
(* read and written by the middleware, and emptied of expired entries by a *)
(* setInterval callback.                                                   *)
(***************************************************************************)
MaxTime == 4        \* the clock stops here
MaxWindow == 2      \* windowMs is drawn from 0..MaxWindow
MaxRate == 2        \* max is drawn from 0..MaxRate

RateKeys == {"k1", "k2"}
RateMessage == "Too many requests, please try again later."

NoRecord == [present |-> FALSE, count |-> 0, resetTime |-> 0]
NoRateOpts == [windowMs |-> 0, max |-> 0]
NoRequests == [k \in RateKeys |-> NoRecord]
NonePassed == [k \in RateKeys |-> <<>>]

\* a window that is over as soon as windowMs has gone by
ExpiredAtEdge(record, t) == t - record.resetTime >= rateOpts.windowMs

\* now - record.resetTime > windowMs
Expired(record, t) == t - record.resetTime > rateOpts.windowMs

\* the middleware rateLimit returns, for a request of client key
\* a lookup that forgets the key: the record of any client
LookupAny(key) ==
    IF \E k \in RateKeys : requests[k].present
    THEN requests[CHOOSE k \in RateKeys : requests[k].present]
    ELSE NoRecord

\* requests.get(key)
Lookup(key) == requests[key]

\* the middleware on the record it found, at time t: whether it calls next
\* and the record it leaves
RateOutcome(record, t) ==
    IF ~record.present
    THEN [pass |-> TRUE, record |-> [present |-> TRUE, count |-> 1, resetTime |-> t]]
    ELSE IF Expired(record, t)
    THEN [pass |-> TRUE, record |-> [record EXCEPT !.count = 1, !.resetTime = t]]
    ELSE IF record.count >= rateOpts.max
    THEN [pass |-> FALSE, record |-> record]
    ELSE [pass |-> TRUE, record |-> [record EXCEPT !.count = @ + 1]]

RateLimit(key) ==
    LET out == RateOutcome(Lookup(key), now)
    IN /\ IF out.pass
          THEN /\ requests' = [requests EXCEPT ![key] = out.record]
               /\ passed' = [passed EXCEPT ![key] = Append(@, now)]
               /\ res' = <<enhanceResponse(FreshResponse)>>
               /\ lastCall' = Call("rateLimit", <<key, now>>, FALSE, "next")
          ELSE /\ requests' = requests
               /\ passed' = passed
               /\ res' = <<json(status(enhanceResponse(FreshResponse), 429),
                                RateMessage, 1).res>>
               /\ lastCall' = Call("rateLimit", <<key, now>>, FALSE, "429")
       /\ unswept' = [unswept EXCEPT ![key] = RateOutcome(@, now).record]
       /\ UNCHANGED <<middlewares, routes, rq, acts, log, stack, extraNext, limits,
                      rateOpts, now, timer, mvars, bvars>>

\* a cleanup that deletes every record it finds
StaleAlways(data, t) == TRUE

\* now - data.resetTime > windowMs, in the setInterval callback
Stale(data, t) == t - data.resetTime > rateOpts.windowMs

\* the setInterval callback: entries whose window has expired are deleted
CleanUp ==
    /\ \E key \in RateKeys : requests[key].present /\ Stale(requests[key], now)
    /\ requests' = [key \in RateKeys |->
                      IF requests[key].present /\ Stale(requests[key], now)
                      THEN NoRecord ELSE requests[key]]
    /\ UNCHANGED <<appvars, reqvars, rateOpts, now, passed, unswept, timer, mvars, bvars>>

\* time passes
Tick ==
    /\ now < MaxTime
    /\ now' = now + 1
    /\ UNCHANGED <<appvars, reqvars, rateOpts, requests, passed, unswept, timer, mvars, bvars>>

(***************************************************************************)
(* timeout (shortcuts.js): a 3-argument handler that arms a timer, wraps   *)
(* res.end so that ending the response clears the timer, and calls next(). *)
(* A cleared timer never fires: the timer is live while it is "armed" and  *)
(* the response has not ended.                                             *)
(***************************************************************************)
TimeoutHandler == Fn("timeout", 3)

IsTimeout(r, a) ==
    /\ acts[r][a].st = "handler"
    /\ rq[r].chain[acts[r][a].idx] = TimeoutHandler

\* const timer = setTimeout(...); res.end = function ...; next()
TimeoutStart(r, a) ==
    /\ InHandler(r, a)
    /\ IsTimeout(r, a)
    /\ acts[r][a].nexts = 0
    /\ timer' = "armed"
    /\ acts' = [acts EXCEPT ![r] =
                  Append([@ EXCEPT ![a].nexts = @ + 1],
                         NewAct(acts[r][a].idx + 1, a, FALSE))]
    /\ stack' = Append(stack, [r |-> r, a |-> Len(acts[r]) + 1])
    /\ UNCHANGED <<rq, res, log, extraNext, limits, appvars, mvars, bvars,
                   rateOpts, requests, now, passed, unswept>>

\* next() has returned: the handler returns
TimeoutReturn(r, a) ==
    /\ IsTimeout(r, a)
    /\ acts[r][a].nexts = 1
    /\ HReturn(r, a)

\* the setTimeout callback: if (!res.writableEnded)
\* res.status(408).json({ error: 'Request timeout' }).  When the header has
\* been written json throws in writeHead, outside any try block
TimerCallback(r) ==
    /\ r = 1 /\ r <= Len(rq)
    /\ stack = <<>>
    /\ timer = "armed"
    /\ ~res[r].ended
    /\ LET j == json(status(res[r], 408), "Request timeout", ByTimer)
       IN /\ res' = [res EXCEPT ![r] = j.res]
          /\ timer' = IF j.threw THEN "threw" ELSE "fired"
    /\ UNCHANGED <<rq, acts, log, stack, extraNext, limits, appvars, mvars, bvars,
                   rateOpts, requests, now, passed, unswept>>

(***************************************************************************)
(* allow and ban (bulletapi.js).  A JavaScript value is modelled by its    *)
(* literal; a condition is a static value or a function of the request,    *)
(* given by the value it returns for each request.                         *)
(***************************************************************************)
Values == {"true", "false", "0", "1", "''", "'x'", "null", "undefined", "{}"}

\* a truthiness under which only true passes
TruthyOnlyTrue(v) == v = "true"

\* if (allowed), if (!banned): ToBoolean
Truthy(v) == v \in {"true", "1", "'x'", "{}"}

\* the requests of test-shortcuts.js: ?pass=yes, ?pass=no, no query
Queries == {"yes", "no", "none"}

Static(v) == [kind |-> "static", val |-> v, returns |-> [q \in Queries |-> v]]
Function(f) == [kind |-> "function", val |-> "function", returns |-> f]

\* typeof condition === 'function' ? condition(req) : condition
Evaluate(condition, q) ==
    IF condition.kind = "function" THEN condition.returns[q] ELSE condition.val

\* message = 'Access denied', message = 'Access forbidden'
MessageOr(message, default) == IF message = "undefined" THEN default ELSE message

\* the handler allow(condition, message) returns, run on a fresh response:
\* what it did with next and with the response
Allow(condition, message, q) ==
    IF Truthy(Evaluate(condition, q))
    THEN [next |-> 1, res |-> enhanceResponse(FreshResponse)]
    ELSE [next |-> 0,
          res |-> json(status(enhanceResponse(FreshResponse), 403),
                       MessageOr(message, "Access denied"), 1).res]

\* the handler ban(condition, message) returns, run on a fresh response
Ban(condition, message, q) ==
    IF ~Truthy(Evaluate(condition, q))
    THEN [next |-> 1, res |-> enhanceResponse(FreshResponse)]
    ELSE [next |-> 0,
          res |-> json(status(enhanceResponse(FreshResponse), 403),
                       MessageOr(message, "Access forbidden"), 1).res]

\* one run of a shortcut handler on a request: the call and its outcome are
\* recorded in lastCall, the response in res
Ran(op, args, outcome) ==
    /\ lastCall' = Call(op, args, FALSE, IF outcome.next = 1 THEN "next" ELSE "answered")
    /\ res' = <<outcome.res>>
    /\ UNCHANGED <<middlewares, routes, rq, acts, log, stack, extraNext, limits,
                   mvars, bvars, svars>>

(***************************************************************************)
(* basicAuth (shortcuts.js).  Credentials are strings over a small         *)
(* alphabet, held as sequences of characters; the token of an              *)
(* Authorization header is a sequence of base64 digits 0..63, Pad for "=". *)
(***************************************************************************)
MaxCredLen == 3     \* characters of a password, and of the extra text of a header

CredChars == {"u", "p", ":"}
CharCode(c) == IF c = "u" THEN 117 ELSE IF c = "p" THEN 112 ELSE 58
CodeChar(n) == IF n = 117 THEN "u" ELSE IF n = 112 THEN "p" ELSE IF n = 58 THEN ":" ELSE "?"
Pad == 64

Bytes(str) == [i \in 1..Len(str) |-> CharCode(str[i])]
Chars(bytes) == [i \in 1..Len(bytes) |-> CodeChar(bytes[i])]

\* base64 of a sequence of bytes, three bytes to four digits, padded
RECURSIVE B64Encode(_)
B64Encode(bytes) ==
    IF Len(bytes) = 0 THEN <<>>
    ELSE IF Len(bytes) = 1
    THEN <<bytes[1] \div 4, (bytes[1] % 4) * 16, Pad, Pad>>
    ELSE IF Len(bytes) = 2
    THEN LET n == (bytes[1] * 256 + bytes[2]) * 4
         IN <<n \div 4096, (n \div 64) % 64, n % 64, Pad>>
    ELSE LET n == bytes[1] * 65536 + bytes[2] * 256 + bytes[3]
         IN <<n \div 262144, (n \div 4096) % 64, (n \div 64) % 64, n % 64>>
               \o B64Encode(SubSeq(bytes, 4, Len(bytes)))

\* the digits of a token up to its first "="
RECURSIVE BeforePad(_)
BeforePad(token) ==
    IF token = <<>> \/ Head(token) = Pad THEN <<>>
    ELSE <<Head(token)>> \o BeforePad(Tail(token))

\* Buffer.from(token, 'base64'): four digits to three bytes; two or three
\* digits left over give one or two bytes, padding is not required
RECURSIVE B64Digits(_)
B64Digits(ds) ==
    IF Len(ds) < 2 THEN <<>>
    ELSE IF Len(ds) = 2
    THEN <<(ds[1] * 64 + ds[2]) \div 16>>
    ELSE IF Len(ds) = 3
    THEN LET n == (ds[1] * 4096 + ds[2] * 64 + ds[3]) \div 4
         IN <<n \div 256, n % 256>>
    ELSE LET n == ds[1] * 262144 + ds[2] * 4096 + ds[3] * 64 + ds[4]
         IN <<n \div 65536, (n \div 256) % 256, n % 256>>
               \o B64Digits(SubSeq(ds, 5, Len(ds)))

B64Decode(token) == B64Digits(BeforePad(token))

\* credentials.split(':'): the pieces between the colons
RECURSIVE SplitColon(_)
SplitColon(str) ==
    IF \A i \in 1..Len(str) : str[i] # ":" THEN <<str>>
    ELSE LET i == CHOOSE k \in 1..Len(str) :
                     str[k] = ":" /\ \A j \in 1..(k-1) : str[j] # ":"
         IN <<SubSeq(str, 1, i-1)>> \o SplitColon(SubSeq(str, i+1, Len(str)))

NoHeader == [present |-> FALSE, scheme |-> "", token |-> <<>>]
Header(scheme, token) == [present |-> TRUE, scheme |-> scheme, token |-> token]
Undefined == <<"undefined">>

\* if (!username || !password) throw: an option is missing or empty
BasicAuthThrows(options) ==
    options.username \in {Undefined, <<>>} \/ options.password \in {Undefined, <<>>}

Answer401(message) ==
    json(status([enhanceResponse(FreshResponse) EXCEPT
                    !.authenticate = "Basic realm=\"Secure Area\""], 401),
         message, 1).res

\* the handler basicAuth(options) returns, run on a fresh response
BasicAuth(options, header) ==
    IF ~header.present \/ header.scheme # "Basic "
    THEN [next |-> 0, res |-> Answer401("Authentication required")]
    ELSE LET parts == SplitColon(Chars(B64Decode(header.token)))
             user == parts[1]
             pass == IF Len(parts) >= 2 THEN parts[2] ELSE Undefined
         IN IF user = options.username /\ pass = options.password
            THEN [next |-> 1, res |-> enhanceResponse(FreshResponse)]
            ELSE [next |-> 0, res |-> Answer401("Invalid credentials")]

\* basicAuth(options) is called
MakeBasicAuth(options) ==
    /\ lastCall' = Call("basicAuth", <<options>>, BasicAuthThrows(options), "handler")
    /\ UNCHANGED <<middlewares, routes, reqvars, mvars, bvars, svars>>

(***************************************************************************)
(* Matcher runs: a pattern and a pathname are drawn, the route test is     *)
(* applied once.                                                           *)
(***************************************************************************)
PatAlphabet == {"/", ":", ".", "a"}
PathAlphabet == {"/", ":", "a", "b"}

Patterns == {<<"/">> \o s : s \in SeqsUpTo(PatAlphabet, MaxPatLen)}
Pathnames == {<<"/">> \o s : s \in SeqsUpTo(PathAlphabet, MaxPathLen)}

Pending == [matched |-> FALSE, threw |-> FALSE, params |-> NoParams, done |-> FALSE]

\* the application before any registration and any request
AppIdle ==
    /\ middlewares = <<>>
    /\ routes = <<>>
    /\ lastCall = NoCall
    /\ rq = <<>>
    /\ res = <<>>
    /\ acts = <<>>
    /\ log = <<>>
    /\ stack = <<>>
    /\ extraNext = <<>>
    /\ inbound = NoMessage
    /\ parsing = NoParsing
    /\ rateOpts = NoRateOpts
    /\ requests = NoRequests
    /\ now = 0
    /\ passed = NonePassed
    /\ unswept = NoRequests
    /\ timer = "none"

NoLimits == [awaits |-> 0, extraNext |-> 0]

MatchInit ==
    /\ mPattern \in Patterns
    /\ mPathname \in Pathnames
    /\ mVerdict = Pending
    /\ AppIdle
    /\ limits = NoLimits

MatchRun ==
    /\ ~mVerdict.done
    /\ LET r == RouteTest(mPattern, mPathname)
       IN mVerdict' = [matched |-> r.matched, threw |-> r.threw,
                       params |-> r.params, done |-> TRUE]
    /\ UNCHANGED <<mPattern, mPathname, appvars, reqvars, bvars, svars>>

MatchNext == MatchRun

MatchSpec == MatchInit /\ [][MatchNext]_vars

(***************************************************************************)
(* The pipeline under dispatch: up to MaxMiddlewares middlewares and one   *)
(* route are registered, in any order; then a request is dispatched and    *)
(* its chain runs, each handler doing whatever a handler may do.           *)
(***************************************************************************)
MaxRequests == 1
MaxPipeRoutes == 1

NoMatcherRun ==
    /\ mPattern = <<>>
    /\ mPathname = <<>>
    /\ mVerdict = [matched |-> FALSE, threw |-> FALSE, params |-> NoParams, done |-> TRUE]

PipeMiddlewares == {Fn("A", 2), Fn("C", 3)}
PipeRouteHandlers == {Fn("B", 2), Fn("D", 3)}
PipeHandlerLists == UNION {[1..k -> PipeRouteHandlers] : k \in 1..MaxRouteHandlers}
PipePath == <<"/", "a">>
PipeUrls == {<<"/", "a">>, <<"/", "b">>}

Init ==
    /\ NoMatcherRun
    /\ AppIdle
    /\ limits = [awaits |-> MaxAwaits, extraNext |-> MaxExtraNext]

RegisterMiddleware ==
    /\ rq = <<>>
    /\ Len(middlewares) < MaxMiddlewares
    /\ \E m \in PipeMiddlewares : Use(m)

RegisterPipeRoute ==
    /\ rq = <<>>
    /\ Len(routes) < MaxPipeRoutes
    /\ \E hs \in PipeHandlerLists : RegisterRoute("GET", PipePath, hs)

Dispatch ==
    /\ Len(rq) < MaxRequests
    /\ \E url \in PipeUrls : HandleRequest("GET", url)
    /\ UNCHANGED <<bvars, svars>>

Next ==
    \/ RegisterMiddleware
    \/ RegisterPipeRoute
    \/ Dispatch
    \/ SomeEnter
    \/ SomeHEnd
    \/ SomeHWriteHead
    \/ SomeHNext
    \/ SomeHAwait
    \/ SomeHReturn
    \/ SomeHThrow
    \/ SomeHReject
    \/ SomeHResume
    \/ SomeAfterHandler
    \/ SomeCatchRejection
    \/ SomeChildSettled

Spec == Init /\ [][Next]_vars

\* the same, where a request does arrive, every handler that is running
\* comes to an end of its own, every promise a handler awaits is settled and
\* the event loop resumes whatever is ready
LiveSpec == Init /\ [][Next]_vars /\ WF_vars(Next)

(***************************************************************************)
(* Requests in flight together: the application is configured (at most    *)
(* one middleware, one route of one handler), then up to MaxInFlight       *)
(* requests are dispatched, each as soon as nothing is running, whatever   *)
(* the state of the requests before it.                                    *)
(***************************************************************************)
MaxInFlight == 2    \* requests dispatched to one application

PairInit ==
    /\ NoMatcherRun
    /\ AppIdle
    /\ limits = [awaits |-> 1, extraNext |-> 0]

\* app.use(...), app.get(...) before listen, taken as one step
Configure ==
    /\ routes = <<>>
    /\ \E mws \in {<<>>} \cup {<<m>> : m \in PipeMiddlewares} :
          middlewares' = mws
    /\ \E h \in PipeRouteHandlers :
          routes' = <<[method |-> "GET", path |-> PipePath, handlers |-> <<h>>]>>
    /\ UNCHANGED <<lastCall, reqvars, mvars, bvars, svars>>

PairDispatch ==
    /\ routes # <<>>
    /\ Len(rq) < MaxInFlight
    /\ \E url \in PipeUrls : HandleRequest("GET", url)
    /\ UNCHANGED <<bvars, svars>>

\* the steps of one request
StepOf(r) ==
    /\ r <= Len(rq)
    /\ \E a \in 1..Len(acts[r]) :
          \/ Enter(r, a)
          \/ HEnd(r, a)
          \/ HWriteHead(r, a)
          \/ HNext(r, a)
          \/ HAwait(r, a)
          \/ HReturn(r, a)
          \/ HThrow(r, a)
          \/ HReject(r, a)
          \/ HResume(r, a)
          \/ AfterHandler(r, a)
          \/ CatchRejection(r, a)
          \/ ChildSettled(r, a)

PairNext ==
    \/ Configure
    \/ PairDispatch
    \/ SomeEnter
    \/ SomeHEnd
    \/ SomeHWriteHead
    \/ SomeHNext
    \/ SomeHAwait
    \/ SomeHReturn
    \/ SomeHThrow
    \/ SomeHReject
    \/ SomeHResume
    \/ SomeAfterHandler
    \/ SomeCatchRejection
    \/ SomeChildSettled

PairSpec == PairInit /\ [][PairNext]_vars

\* a synchronous stretch of JavaScript, of any request, runs to its end
Stretch == stack # <<>> /\ PairNext

\* the same, where running code comes to an end and the promises the
\* second request awaits are settled; nothing is assumed of what the first
\* request awaits, which may stay suspended for ever
PairLiveSpec ==
    PairInit /\ [][PairNext]_vars /\ WF_vars(Stretch) /\ WF_vars(StepOf(2))

(***************************************************************************)
(* Continuations invoked again: one request over a configured              *)
(* application, whose 3-argument handlers may invoke their continuation    *)
(* more than once, MaxAgain further invocations in all.                    *)
(***************************************************************************)
MaxAgain == 2       \* per request: continuation calls beyond a handler's first

AgainInit ==
    /\ NoMatcherRun
    /\ AppIdle
    /\ limits = [awaits |-> 1, extraNext |-> MaxAgain]

AgainConfigure ==
    /\ routes = <<>>
    /\ \E mws \in {<<>>} \cup {<<m>> : m \in PipeMiddlewares} :
          middlewares' = mws
    /\ \E h \in PipeRouteHandlers :
          routes' = <<[method |-> "GET", path |-> PipePath, handlers |-> <<h>>]>>
    /\ UNCHANGED <<lastCall, reqvars, mvars, bvars, svars>>

AgainDispatch ==
    /\ routes # <<>>
    /\ Dispatch

AgainNext ==
    \/ AgainConfigure
    \/ AgainDispatch
    \/ SomeEnter
    \/ SomeHEnd
    \/ SomeHWriteHead
    \/ SomeHNext
    \/ SomeHAwait
    \/ SomeHReturn
    \/ SomeHThrow
    \/ SomeHReject
    \/ SomeHResume
    \/ SomeAfterHandler
    \/ SomeCatchRejection
    \/ SomeChildSettled

AgainSpec == AgainInit /\ [][AgainNext]_vars

(***************************************************************************)
(* Registration while a request is in flight: the application has one     *)
(* route of one handler; after the first request is dispatched, use() and  *)
(* get() are called again, by a running handler or between two stretches,  *)
(* and then a second request is dispatched.                                *)
(***************************************************************************)
MaxLateRoutes == 2  \* routes of the table, late registrations included
MaxLateUses == 1    \* calls of use(), all late

LatePaths == {PipePath, <<"/", "b">>}

\* a use() that pushes onto an array the chains in flight share
UseLateShared(middleware) ==
    /\ rq # <<>>
    /\ middlewares' = Append(middlewares, middleware)
    /\ lastCall' = Call("use", <<middleware>>, FALSE, "undefined")
    /\ rq' = [r \in 1..Len(rq) |->
                IF rq[r].route # 0
                THEN [rq[r] EXCEPT !.chain = Append(@, middleware)]
                ELSE rq[r]]
    /\ UNCHANGED <<routes, res, acts, log, stack, extraNext, limits, mvars, bvars, svars>>

\* use(middleware) of a valid middleware: this.#middlewares.push(middleware)
UseLate(middleware) ==
    /\ rq # <<>>
    /\ middlewares' = Append(middlewares, middleware)
    /\ lastCall' = Call("use", <<middleware>>, FALSE, "undefined")
    /\ UNCHANGED <<routes, reqvars, mvars, bvars, svars>>

\* get(path, handler): this.#routes.push({method, path, handlers})
RouteLate(path, handlers) ==
    /\ rq # <<>>
    /\ routes' = Append(routes, [method |-> "GET", path |-> path, handlers |-> handlers])
    /\ lastCall' = Call("route", <<"GET", path, handlers>>, FALSE, "undefined")
    /\ UNCHANGED <<middlewares, reqvars, mvars, bvars, svars>>

LateInit ==
    /\ NoMatcherRun
    /\ AppIdle
    /\ limits = [awaits |-> 1, extraNext |-> 0]

\* app.get(...) before listen
LateConfigure ==
    /\ routes = <<>>
    /\ \E h \in PipeRouteHandlers :
          routes' = <<[method |-> "GET", path |-> PipePath, handlers |-> <<h>>]>>
    /\ UNCHANGED <<middlewares, lastCall, reqvars, mvars, bvars, svars>>

\* the second request arrives after a late registration
LateDispatch ==
    /\ routes # <<>>
    /\ Len(rq) < MaxInFlight
    /\ rq # <<>> => lastCall # NoCall
    /\ \E url \in PipeUrls : HandleRequest("GET", url)
    /\ UNCHANGED <<bvars, svars>>

LateUse ==
    /\ Len(middlewares) < MaxLateUses
    /\ \E m \in PipeMiddlewares : UseLate(m)

LateRoute ==
    /\ Len(routes) < MaxLateRoutes
    /\ \E path \in LatePaths : \E h \in PipeRouteHandlers : RouteLate(path, <<h>>)

LateNext ==
    \/ LateConfigure
    \/ LateDispatch
    \/ LateUse
    \/ LateRoute
    \/ SomeEnter
    \/ SomeHEnd
    \/ SomeHWriteHead
    \/ SomeHNext
    \/ SomeHAwait
    \/ SomeHReturn
    \/ SomeHThrow
    \/ SomeHReject
    \/ SomeHResume
    \/ SomeAfterHandler
    \/ SomeCatchRejection
    \/ SomeChildSettled

LateSpec == LateInit /\ [][LateNext]_vars

(***************************************************************************)
(* Dispatch over a route table: up to MaxRoutes routes over two methods    *)
(* and three paths (a parameterized one, an exact one it overlaps, one    *)
(* apart) are registered, then requests are dispatched; the handlers end   *)
(* the response, invoke their continuation or return.                      *)
(***************************************************************************)
MaxRoutes == 3
MaxRouteRequests == 1

RouteMethods == {"GET", "POST"}
PathParam == <<"/", "a", "/", ":", "a">>
PathExact == <<"/", "a", "/", "b">>
PathOther == <<"/", "b">>
RoutePaths == {PathParam, PathExact, PathOther}
RouteUrls == {<<"/", "a", "/", "b">>, <<"/", "a", "/", "a">>, <<"/", "b">>,
              <<"/", "a">>, <<"/", "a", "/", "b", "?", "a">>}
RouteMiddlewares == {Fn("M", 3), Fn("one", 1)}
RouteHandlerLists == {<<Fn("H", 2)>>, <<Fn("H", 2), NotAFunction>>}

RouteInit ==
    /\ NoMatcherRun
    /\ AppIdle
    /\ limits = NoLimits

SetupMiddleware ==
    /\ rq = <<>>
    /\ Len(middlewares) < MaxMiddlewares
    /\ \E m \in RouteMiddlewares : Use(m)

SetupRoute ==
    /\ rq = <<>>
    /\ Len(routes) < MaxRoutes
    /\ \E method \in RouteMethods : \E path \in RoutePaths :
          \E hs \in RouteHandlerLists : RegisterRoute(method, path, hs)

Serve ==
    /\ Len(rq) < MaxRouteRequests
    /\ \E method \in RouteMethods : \E url \in RouteUrls : HandleRequest(method, url)
    /\ UNCHANGED <<bvars, svars>>

RouteNext ==
    \/ SetupMiddleware
    \/ SetupRoute
    \/ Serve
    \/ SomeEnter
    \/ SomeHEnd
    \/ SomeHNext
    \/ SomeHReturn
    \/ SomeAfterHandler
    \/ SomeChildSettled

RouteSpec == RouteInit /\ [][RouteNext]_vars

(***************************************************************************)
(* Registration: middlewares and routes are registered by use(), global(), *)
(* the route methods and group(), with valid and invalid handlers.         *)
(***************************************************************************)
MaxRegRoutes == 3
MaxGroupOps == 2

RegMethods == {"GET", "POST"}
RegPath == <<"/", "a">>
RegPrefix == <<"/", "p">>
RegInnerPrefix == <<"/", "q">>
RegHandlers == {Fn("H", 2), Fn("one", 1), NotAFunction}
RegHandlerLists ==
    {<<Fn("H", 2), Fn("N", 3)>>, <<Fn("H", 2), NotAFunction>>, <<Fn("one", 1)>>}
RegRouteOps ==
    {RouteOp(m, RegPath, hs) : m \in RegMethods, hs \in RegHandlerLists}
RegInnerOps == {<<RouteOp("GET", RegPath, <<Fn("H", 2), Fn("N", 3)>>)>>}
RegGroupOps ==
    {GroupOp(k, RegInnerPrefix, ops) :
        k \in {"handleGroup", "appGroup"}, ops \in RegInnerOps}
RegCallbacks == SeqsUpTo(RegRouteOps \cup RegGroupOps, MaxGroupOps)

RegInit ==
    /\ NoMatcherRun
    /\ AppIdle
    /\ limits = NoLimits

RegUse ==
    /\ Len(middlewares) < MaxMiddlewares
    /\ \E m \in RegHandlers : Use(m)

RegGlobal ==
    /\ Len(middlewares) < MaxMiddlewares
    /\ \E m \in RegHandlers : Global(m)

RegRoute ==
    /\ Len(routes) < MaxRegRoutes
    /\ \E m \in RegMethods : \E hs \in RegHandlerLists : RegisterRoute(m, RegPath, hs)

RegGroup ==
    /\ \E ops \in RegCallbacks : group(RegPrefix, ops)
    /\ Len(routes') <= MaxRegRoutes

RegNext ==
    \/ RegUse
    \/ RegGlobal
    \/ RegRoute
    \/ RegGroup

RegSpec == RegInit /\ [][RegNext]_vars

(***************************************************************************)
(* Body-parser runs: up to MaxParsers parsers are registered with use(),   *)
(* then one POST route with a 2-argument handler; one request arrives with *)
(* a message drawn from Messages.                                          *)
(***************************************************************************)
BodyPath == <<"/", "u">>
BodyRouteHandler == Fn("F", 2)

BodyInit ==
    /\ NoMatcherRun
    /\ AppIdle
    /\ limits = NoLimits

BodyUse ==
    /\ rq = <<>>
    /\ routes = <<>>
    /\ Len(middlewares) < MaxParsers
    /\ \E name \in ParserNames : Use(Parser(name))

BodyRoute ==
    /\ rq = <<>>
    /\ routes = <<>>
    /\ RegisterRoute("POST", BodyPath, <<BodyRouteHandler>>)

BodyDispatch ==
    /\ rq = <<>>
    /\ routes # <<>>
    /\ HandleRequest("POST", BodyPath)
    /\ \E m \in Messages : inbound' = m
    /\ parsing' = parsing
    /\ UNCHANGED svars

RouteHandlerAt(r, a) ==
    /\ acts[r][a].st = "handler"
    /\ ~IsParser(rq[r].chain[acts[r][a].idx])

BodyEnter == \E r \in 1..Len(rq) : \E a \in 1..Len(acts[r]) : Enter(r, a)
BodyStart == \E r \in 1..Len(rq) : \E a \in 1..Len(acts[r]) : PStart(r, a)
BodyReturn == \E r \in 1..Len(rq) : \E a \in 1..Len(acts[r]) : PReturn(r, a)
BodyData == \E r \in 1..Len(rq) : \E n \in 1..Limit : StreamData(r, n)
BodyEnd == \E r \in 1..Len(rq) : StreamEnd(r)
BodyError == \E r \in 1..Len(rq) : StreamError(r)
BodyIterDone == \E r \in 1..Len(rq) : \E a \in 1..Len(acts[r]) : IterDone(r, a)
BodyTimer == \E r \in 1..Len(rq) : TimerFires(r)
BodyHEnd ==
    \E r \in 1..Len(rq) : \E a \in 1..Len(acts[r]) :
        RouteHandlerAt(r, a) /\ HEnd(r, a)
BodyHReturn ==
    \E r \in 1..Len(rq) : \E a \in 1..Len(acts[r]) :
        RouteHandlerAt(r, a) /\ HReturn(r, a)
BodyAfterHandler == \E r \in 1..Len(rq) : \E a \in 1..Len(acts[r]) : AfterHandler(r, a)
BodyCatchRejection == \E r \in 1..Len(rq) : \E a \in 1..Len(acts[r]) : CatchRejection(r, a)
BodyChildSettled == \E r \in 1..Len(rq) : \E a \in 1..Len(acts[r]) : ChildSettled(r, a)

BodyNext ==
    \/ BodyUse
    \/ BodyRoute
    \/ BodyDispatch
    \/ BodyEnter
    \/ BodyStart
    \/ BodyReturn
    \/ BodyData
    \/ BodyEnd
    \/ BodyError
    \/ BodyIterDone
    \/ BodyTimer
    \/ BodyHEnd
    \/ BodyHReturn
    \/ BodyAfterHandler
    \/ BodyCatchRejection
    \/ BodyChildSettled

BodySpec == BodyInit /\ [][BodyNext]_vars

(***************************************************************************)
(* Rate-limiter runs: the options are drawn, then requests of two client   *)
(* keys arrive as time passes.                                             *)
(***************************************************************************)
RateInit ==
    /\ NoMatcherRun
    /\ middlewares = <<>> /\ routes = <<>> /\ lastCall = NoCall
    /\ rq = <<>> /\ res = <<>> /\ acts = <<>> /\ log = <<>>
    /\ stack = <<>> /\ extraNext = <<>> /\ limits = NoLimits
    /\ inbound = NoMessage /\ parsing = NoParsing
    /\ rateOpts \in [windowMs : 0..MaxWindow, max : 0..MaxRate]
    /\ requests = NoRequests
    /\ now = 0
    /\ passed = NonePassed
    /\ unswept = NoRequests
    /\ timer = "none"

RateRequest == \E key \in RateKeys : RateLimit(key)

RateNext ==
    \/ RateRequest
    \/ CleanUp
    \/ Tick

RateSpec == RateInit /\ [][RateNext]_vars

(***************************************************************************)
(* Timeout runs: timeout() is registered with use(), then a route whose    *)
(* handlers do as they please; one request arrives.                        *)
(***************************************************************************)
TimeoutInit ==
    /\ NoMatcherRun
    /\ AppIdle
    /\ limits = [awaits |-> MaxAwaits, extraNext |-> 0]

TimeoutUse ==
    /\ rq = <<>> /\ routes = <<>> /\ middlewares = <<>>
    /\ Use(TimeoutHandler)

TimeoutRoute ==
    /\ rq = <<>> /\ routes = <<>> /\ middlewares # <<>>
    /\ \E hs \in PipeHandlerLists : RegisterRoute("GET", PipePath, hs)

TimeoutDispatch ==
    /\ rq = <<>> /\ routes # <<>>
    /\ HandleRequest("GET", PipePath)
    /\ UNCHANGED <<bvars, svars>>

\* a handler other than timeout's is at work in call a
Plain(r, a) == acts[r][a].st = "handler" /\ ~IsTimeout(r, a)

TimeoutArm == \E r \in 1..Len(rq) : \E a \in 1..Len(acts[r]) : TimeoutStart(r, a)
TimeoutOver == \E r \in 1..Len(rq) : \E a \in 1..Len(acts[r]) : TimeoutReturn(r, a)
TimeoutFires == \E r \in 1..Len(rq) : TimerCallback(r)
PlainHEnd == \E r \in 1..Len(rq) : \E a \in 1..Len(acts[r]) : Plain(r, a) /\ HEnd(r, a)
PlainHWriteHead == \E r \in 1..Len(rq) : \E a \in 1..Len(acts[r]) : Plain(r, a) /\ HWriteHead(r, a)
PlainHNext == \E r \in 1..Len(rq) : \E a \in 1..Len(acts[r]) : Plain(r, a) /\ HNext(r, a)
PlainHAwait == \E r \in 1..Len(rq) : \E a \in 1..Len(acts[r]) : Plain(r, a) /\ HAwait(r, a)
PlainHReturn == \E r \in 1..Len(rq) : \E a \in 1..Len(acts[r]) : Plain(r, a) /\ HReturn(r, a)
PlainHThrow == \E r \in 1..Len(rq) : \E a \in 1..Len(acts[r]) : Plain(r, a) /\ HThrow(r, a)
PlainHReject == \E r \in 1..Len(rq) : \E a \in 1..Len(acts[r]) : Plain(r, a) /\ HReject(r, a)
PlainHResume == \E r \in 1..Len(rq) : \E a \in 1..Len(acts[r]) : Plain(r, a) /\ HResume(r, a)

TimeoutNext ==
    \/ TimeoutUse
    \/ TimeoutRoute
    \/ TimeoutDispatch
    \/ SomeEnter
    \/ TimeoutArm
    \/ TimeoutOver
    \/ TimeoutFires
    \/ PlainHEnd
    \/ PlainHWriteHead
    \/ PlainHNext
    \/ PlainHAwait
    \/ PlainHReturn
    \/ PlainHThrow
    \/ PlainHReject
    \/ PlainHResume
    \/ SomeAfterHandler
    \/ SomeCatchRejection
    \/ SomeChildSettled

TimeoutSpec == TimeoutInit /\ [][TimeoutNext]_vars

(***************************************************************************)
(* Shortcut runs: handlers made by allow, ban and basicAuth, and the       *)
(* response helpers, are run on fresh responses with inputs drawn from     *)
(* small sets.                                                             *)
(***************************************************************************)
Conditions ==
    {Static(v) : v \in Values}
        \cup {Function([q \in Queries |-> IF q = y THEN v ELSE w]) :
                 y \in Queries, v \in {"true", "1"}, w \in {"false", "undefined"}}
GuardMessages == {"undefined", "You are banned"}

\* strings of 1..n characters
RECURSIVE CredStrings(_)
CredStrings(n) ==
    IF n = 0 THEN {<<>>}
    ELSE CredStrings(n - 1) \cup
         {Append(str, c) : str \in {x \in CredStrings(n - 1) : Len(x) = n - 1},
                           c \in CredChars}

AuthUsers == {Undefined, <<>>, <<"u">>}
AuthPasswords == {Undefined} \cup CredStrings(MaxCredLen)
AuthOptions == [username : AuthUsers, password : AuthPasswords]

\* headers: none, another scheme, and 'Basic ' with the base64 of "u:" and
\* some text, padded or not
AuthTokens ==
    {B64Encode(Bytes(<<"u", ":">> \o str)) : str \in CredStrings(MaxCredLen)}
        \cup {BeforePad(B64Encode(Bytes(<<"u", ":">> \o str))) : str \in CredStrings(MaxCredLen)}
        \cup {B64Encode(Bytes(<<"u">>)), B64Encode(Bytes(<<"p", ":", "p">>))}
AuthHeaders ==
    {NoHeader} \cup {Header(sch, t) : sch \in {"Basic ", "Bearer ", "basic "}, t \in AuthTokens}

ShortcutInit ==
    /\ NoMatcherRun
    /\ AppIdle
    /\ limits = NoLimits

\* each run starts from a new application and a new request
NothingRun == lastCall = NoCall /\ res = <<>>

RunAllow ==
    /\ NothingRun
    /\ \E c \in Conditions : \E m \in GuardMessages : \E q \in Queries :
          Ran("allow", <<c, m, q>>, Allow(c, m, q))

RunBan ==
    /\ NothingRun
    /\ \E c \in Conditions : \E m \in GuardMessages : \E q \in Queries :
          Ran("ban", <<c, m, q>>, Ban(c, m, q))

RunMakeBasicAuth ==
    /\ NothingRun
    /\ \E o \in AuthOptions : MakeBasicAuth(o)

RunBasicAuth ==
    /\ NothingRun
    /\ \E o \in AuthOptions : \E h \in AuthHeaders :
          /\ ~BasicAuthThrows(o)
          /\ Ran("basicAuth request", <<o, h>>, BasicAuth(o, h))

\* the status calls made before a helper, and the arguments of redirect
StatusCalls == {<<>>, <<201>>, <<404>>, <<500, 201>>}
RedirectUrls == {"/login", "https://example.com/"}
RedirectCodes == {301, 302, 307}

\* a handler's helper call on the response of a new request: res starts as
\* enhanceResponse left it, with the status calls of the chain applied
Helped(op, args, outcome) ==
    /\ lastCall' = Call(op, args, outcome.threw, "undefined")
    /\ res' = <<outcome.res>>
    /\ UNCHANGED <<middlewares, routes, rq, acts, log, stack, extraNext, limits,
                   mvars, bvars, svars>>

RunStatus ==
    /\ NothingRun
    /\ \E codes \in StatusCalls \ {<<>>} :
          /\ lastCall' = Call("status", <<codes>>, FALSE, "this")
          /\ res' = <<Chained(enhanceResponse(FreshResponse), codes)>>
          /\ UNCHANGED <<middlewares, routes, rq, acts, log, stack, extraNext,
                         limits, mvars, bvars, svars>>

RunJson ==
    /\ NothingRun
    /\ \E codes \in StatusCalls : \E v \in Shapes :
          Helped("json", <<codes, v>>,
                 json(Chained(enhanceResponse(FreshResponse), codes), Stringify(v), 1))

RunSend ==
    /\ NothingRun
    /\ \E codes \in StatusCalls : \E v \in Shapes :
          Helped("send", <<codes, v>>,
                 send(Chained(enhanceResponse(FreshResponse), codes), v, 1))

RunRedirect ==
    /\ NothingRun
    /\ \E codes \in StatusCalls : \E url \in RedirectUrls : \E c \in RedirectCodes :
          Helped("redirect", <<codes, url, c>>,
                 redirect(Chained(enhanceResponse(FreshResponse), codes), url, c, 1))

\* res.redirect(url): the status argument takes its default
RunRedirectDefault ==
    /\ NothingRun
    /\ \E codes \in StatusCalls : \E url \in RedirectUrls :
          Helped("redirect", <<codes, url>>,
                 redirect(Chained(enhanceResponse(FreshResponse), codes), url,
                          DefaultRedirect, 1))

ShortcutNext ==
    \/ RunAllow
    \/ RunBan
    \/ RunMakeBasicAuth
    \/ RunBasicAuth
    \/ RunStatus
    \/ RunJson
    \/ RunSend
    \/ RunRedirect
    \/ RunRedirectDefault

ShortcutSpec == ShortcutInit /\ [][ShortcutNext]_vars

(***************************************************************************)
(* The path matcher as the specification words it: segments separated by   *)
(* "/", a segment that starts with ":" is a parameter.                     *)
(***************************************************************************)
IsParamSeg(seg) == seg # <<>> /\ Head(seg) = ":"

ParamName(seg) == Tail(seg)

HasParamSeg(p) == \E i \in 1..Len(SplitSlash(p)) : IsParamSeg(SplitSlash(p)[i])

\* every ":" of the pattern opens a segment and is followed, up to the end of
\* the segment, by one or more word characters; the names are distinct
WellFormedParams(p) ==
    LET segs == SplitSlash(p)
        ps == {i \in 1..Len(segs) : IsParamSeg(segs[i])}
    IN /\ \A i \in 1..Len(segs) :
            IF IsParamSeg(segs[i])
            THEN /\ Len(segs[i]) >= 2
                 /\ \A k \in 2..Len(segs[i]) : IsWordChar(segs[i][k])
            ELSE ~Includes(segs[i], ":")
       /\ \A i, j \in ps : ParamName(segs[i]) = ParamName(segs[j]) => i = j

SpecMatches(p, s) ==
    IF ~HasParamSeg(p) THEN p = s
    ELSE LET ps == SplitSlash(p)
             ss == SplitSlash(s)
         IN /\ Len(ps) = Len(ss)
            /\ \A i \in 1..Len(ps) :
                  IF IsParamSeg(ps[i]) THEN ss[i] # <<>> ELSE ps[i] = ss[i]

SpecParams(p, s) ==
    LET ps == SplitSlash(p)
        ss == SplitSlash(s)
    IN {[name |-> ParamName(ps[i]), value |-> ss[i]] :
            i \in {k \in 1..Len(ps) : IsParamSeg(ps[k])}}

\* the route the specification's rule picks: the earliest entry of the
\* request's method whose path equals the pathname or, as a parameterized
\* pattern, matches it; 0 when there is none
SpecRoute(rts, method, pathname) ==
    LET hits == {i \in 1..Len(rts) :
                    /\ rts[i].method = method
                    /\ \/ rts[i].path = pathname
                       \/ HasParamSeg(rts[i].path) /\ SpecMatches(rts[i].path, pathname)}
    IN IF hits = {} THEN 0 ELSE CHOOSE i \in hits : \A j \in hits : i <= j

\* the pathname of a request: its url up to the query
SpecPathname(url) ==
    IF \E k \in 1..Len(url) : url[k] = "?"
    THEN SubSeq(url, 1, (CHOOSE k \in 1..Len(url) :
                            url[k] = "?" /\ \A j \in 1..(k-1) : url[j] # "?") - 1)
    ELSE url

\* C5: a request no registered route matches in both method and path is
\* answered 404, text/plain, 'Not Found\n', ended, and no middleware and no
\* route handler is invoked for it.
C5_UnmatchedIs404 ==
    \A r \in 1..Len(rq) :
        SpecRoute(routes, rq[r].method, SpecPathname(rq[r].url)) = 0
            => /\ res[r].status = 404
               /\ res[r].ctype = "text/plain"
               /\ res[r].body = "Not Found\n"
               /\ res[r].ended
               /\ log[r] = <<>>
               /\ acts[r] = <<>>

\* C5's case: a middleware is registered and the request's path is
\* registered under another method only
C5_Witness ==
    \E r \in 1..Len(rq) :
        /\ rq[r].route = 0
        /\ middlewares # <<>>
        /\ \E i \in 1..Len(routes) : routes[i].path = SpecPathname(rq[r].url)
        /\ \A i \in 1..Len(routes) :
              routes[i].path = SpecPathname(rq[r].url) => routes[i].method # rq[r].method
        /\ res[r].status = 404

\* C6: the route chosen by dispatch is the earliest-registered route whose
\* method equals the request's and whose path equals the pathname or is a
\* parameterized pattern matching it; exact routes get no priority.
C6_FirstRegisteredWins ==
    \A r \in 1..Len(rq) :
        rq[r].route = SpecRoute(routes, rq[r].method, SpecPathname(rq[r].url))

\* C6's case: /a/:a registered before /a/b under the same method, and a
\* request to /a/b is served by /a/:a
C6_Witness ==
    \E r \in 1..Len(rq) : \E i, j \in 1..Len(routes) :
        /\ i < j
        /\ routes[i].path = PathParam /\ routes[j].path = PathExact
        /\ routes[i].method = rq[r].method /\ routes[j].method = rq[r].method
        /\ SpecPathname(rq[r].url) = PathExact
        /\ rq[r].route = i
        /\ rq[r].params = {[name |-> <<"a">>, value |-> <<"b">>]}

\* C7: when a parameterized route is matched, req.params maps each parameter
\* name of the pattern to the path segment at the same position; a route
\* matched without parameters gets empty params.  Stated for patterns whose
\* parameter segments are well formed.
C7_ParamsBySegment ==
    (mVerdict.done /\ mVerdict.matched /\ WellFormedParams(mPattern))
        => mVerdict.params = SpecParams(mPattern, mPathname)

\* C8: the matcher reports a match exactly when the pattern has no ":"
\* segment and equals the pathname, or it has ":" segments, the segment
\* counts agree, every literal segment is equal and every parameter segment
\* is non-empty.  Stated for patterns whose parameter segments are well
\* formed.
C8_MatchIffSegmentwise ==
    (mVerdict.done /\ WellFormedParams(mPattern))
        => (mVerdict.matched <=> SpecMatches(mPattern, mPathname))

(***************************************************************************)
(* The pipeline's claims.                                                  *)
(***************************************************************************)
Is500(rs) ==
    /\ rs.status = 500
    /\ rs.ctype = "text/plain"
    /\ rs.body = "Internal Server Error\n"
    /\ rs.ended

\* nothing of request r is running or waiting to run
Settled(r) == stack = <<>> /\ \A a \in 1..Len(acts[r]) : acts[r][a].st \in Terminal

Invoked(r) == {a \in 1..Len(acts[r]) : acts[r][a].hres # "none"}

HandlerOf(r, a) == rq[r].chain[acts[r][a].idx]

\* every handler invoked for r advanced, once, and none ended the response
AllAdvanced(r) ==
    /\ Settled(r)
    /\ ~res[r].ended
    /\ \A a \in Invoked(r) :
          /\ acts[r][a].hres = "returned"
          /\ HandlerOf(r, a).length = 3 => acts[r][a].nexts = 1

\* C1: for a matched request whose handlers all advance without ending the
\* response, the handlers are invoked in this order: every global middleware
\* in the order of the calls of use(), then the route's own handlers in the
\* order they were passed, wherever use() came relative to the route.
C1_MiddlewareThenRouteOrder ==
    \A r \in 1..Len(rq) :
        rq[r].route # 0 =>
            /\ rq[r].chain = middlewares \o routes[rq[r].route].handlers
            /\ AllAdvanced(r) => log[r] = [i \in 1..Len(rq[r].chain) |-> i]

\* C1's case: two middlewares and two route handlers, of both shapes, all
\* advanced
C1_Witness ==
    \E r \in 1..Len(rq) :
        /\ AllAdvanced(r)
        /\ Len(middlewares) = 2 /\ Len(rq[r].chain) = 4
        /\ log[r] = <<1, 2, 3, 4>>
        /\ \E i, j \in 1..4 : rq[r].chain[i].length = 2 /\ rq[r].chain[j].length = 3

\* C2: at the moment a handler is invoked by the pipeline the response has
\* not ended: once it has ended no further handler is started.
C2_NoHandlerAfterEnd ==
    [][\A r \in 1..Len(log) : Len(log'[r]) > Len(log[r]) => ~res[r].ended]_vars

\* C2's case: a call of runNext found the response ended and left a handler
\* of the chain unstarted
C2_Witness ==
    \E r \in 1..Len(rq) : \E a \in 1..Len(acts[r]) :
        /\ acts[r][a].st = "ended"
        /\ acts[r][a].idx <= Len(rq[r].chain)
        /\ res[r].ended

\* the catch block runs in this step for the failure of the handler of a
CatchesFailure(r, a) ==
    /\ acts[r][a].st = "handler"
    /\ acts'[r][a].st \in {"caught", "rejected"}
    /\ acts'[r][a].hres = "threw"

\* C3: if a handler throws or its promise rejects while the response has
\* not ended, the pipeline ends the response with status 500, text/plain and
\* the body 'Internal Server Error\n'.
C3_FailureGives500 ==
    [][\A r \in 1..Len(acts) : \A a \in 1..Len(acts[r]) :
          (CatchesFailure(r, a) /\ ~res[r].ended) => Is500(res'[r])]_vars

\* C4 as stated: if the handler at position i fails, the request results in
\* a 500 response and no handler at a position after i executes.
C4_FailureStopsChain ==
    \A r \in 1..Len(rq) : \A a \in 1..Len(acts[r]) :
        (acts[r][a].hres = "threw" /\ acts[r][a].st \in {"caught", "rejected"})
            => /\ Is500(res[r])
               /\ \A k \in 1..Len(log[r]) : log[r][k] <= acts[r][a].idx

\* C4 as amended: if the handler at position i fails while nothing of the
\* response has been written, the pipeline ends the response with its 500,
\* and if the response has already ended it is left as it is; a handler that
\* fails without having invoked its continuation is followed by no call of
\* runNext for the next position.
C4_FailureStopsChainAmended ==
    [][\A r \in 1..Len(acts) : \A a \in 1..Len(acts[r]) :
          /\ (CatchesFailure(r, a) /\ ~res[r].headersSent) => Is500(res'[r])
          /\ (CatchesFailure(r, a) /\ res[r].ended) => res'[r] = res[r]
          /\ (acts'[r][a].hres = "threw" /\ acts'[r][a].nexts = 0)
                => \A b \in 1..Len(acts'[r]) : acts'[r][b].parent # a]_vars

\* C4's case: a 3-argument handler that is not the last of its chain failed
\* without invoking its continuation; the response is the 500 and the chain
\* went no further
C4_Witness ==
    \E r \in 1..Len(rq) : \E a \in Invoked(r) :
        /\ acts[r][a].hres = "threw" /\ acts[r][a].st = "caught"
        /\ acts[r][a].nexts = 0
        /\ acts[r][a].idx < Len(rq[r].chain)
        /\ HandlerOf(r, a).length = 3
        /\ Is500(res[r])
        /\ Settled(r)
        /\ \A k \in 1..Len(log[r]) : log[r][k] <= acts[r][a].idx

\* C9: a 2-argument handler is invoked without a continuation; the next
\* handler is started only by the pipeline, only after the handler has
\* completed, and then it is started unless the response has ended.
C9_TwoArgAwaited ==
    \A r \in 1..Len(rq) : \A a \in Invoked(r) :
        HandlerOf(r, a).length = 2 =>
            /\ acts[r][a].nexts = 0
            /\ \A b \in 1..Len(acts[r]) :
                  acts[r][b].parent = a =>
                      /\ acts[r][a].hres = "returned"
                      /\ acts[r][b].awaited
                      /\ acts[r][b].st = "ended" => res[r].ended
            /\ (Settled(r) /\ acts[r][a].hres = "returned") =>
                  \E b \in 1..Len(acts[r]) :
                      /\ acts[r][b].parent = a
                      /\ acts[r][b].idx = acts[r][a].idx + 1
                      /\ \/ acts[r][b].hres # "none"
                         \/ acts[r][b].st = "ended"
                         \/ acts[r][b].st = "exhausted"

\* C9's case: a 2-argument handler suspended, was resumed and returned, and
\* only then was the next handler invoked
C9_Witness ==
    \E r \in 1..Len(rq) : \E a \in Invoked(r) : \E b \in 1..Len(acts[r]) :
        /\ HandlerOf(r, a).length = 2
        /\ acts[r][a].awaits = 1 /\ acts[r][a].hres = "returned"
        /\ acts[r][b].parent = a /\ acts[r][b].hres # "none"

NeverInvokedNext(r, i) ==
    \A a \in 1..Len(acts[r]) : acts[r][a].idx = i => acts[r][a].nexts = 0

WasInvoked(r, i) == \E k \in 1..Len(log[r]) : log[r][k] = i

\* C10 as stated: if a 3-argument handler neither invokes its continuation
\* nor ends the response, no later handler is ever invoked for that request
\* and the pipeline never ends or writes the response.
C10_StallsWithoutNext ==
    \A r \in 1..Len(rq) : \A i \in 1..Len(rq[r].chain) :
        (/\ rq[r].chain[i].length = 3
         /\ WasInvoked(r, i)
         /\ NeverInvokedNext(r, i)
         /\ res[r].endedBy # i)
            => /\ \A k \in 1..Len(log[r]) : log[r][k] <= i
               /\ res[r].endedBy # ByPipeline

\* C10 as amended: if a 3-argument handler neither invokes its continuation
\* nor ends the response, no later handler is ever invoked for that request,
\* and the pipeline ends or writes the response only when a handler has
\* failed.
C10_StallsWithoutNextAmended ==
    \A r \in 1..Len(rq) : \A i \in 1..Len(rq[r].chain) :
        (/\ rq[r].chain[i].length = 3
         /\ WasInvoked(r, i)
         /\ NeverInvokedNext(r, i)
         /\ res[r].endedBy # i)
            => /\ \A k \in 1..Len(log[r]) : log[r][k] <= i
               /\ res[r].endedBy = ByPipeline
                     => \E a \in 1..Len(acts[r]) : acts[r][a].hres = "threw"

\* C10's case: a 3-argument handler that is not the last returned without
\* invoking its continuation; nothing was written and nothing more runs
C10_Witness ==
    \E r \in 1..Len(rq) : \E a \in Invoked(r) :
        /\ HandlerOf(r, a).length = 3
        /\ acts[r][a].hres = "returned" /\ acts[r][a].nexts = 0
        /\ acts[r][a].idx < Len(rq[r].chain)
        /\ Settled(r)
        /\ ~res[r].headersSent /\ ~res[r].ended
        /\ \A k \in 1..Len(log[r]) : log[r][k] <= acts[r][a].idx

\* the handler of a was invoked and has not finished, or what runNext does
\* after it has not
Unfinished(r, b) == acts[r][b].hres # "none" /\ acts[r][b].st \notin Terminal

Nested ==
    \A k \in 2..Len(stack) :
        /\ stack[k].r = stack[k-1].r
        /\ acts[stack[k].r][stack[k].a].parent = stack[k-1].a

OnStack(r, a) == \E k \in 1..Len(stack) : stack[k] = [r |-> r, a |-> a]

Unanswerable(r) ==
    \A a \in 1..Len(acts[r]) :
        acts[r][a].st \in {"caught", "rejected"} => acts[r][a].st = "rejected"

\* a 3-argument handler of r has finished without invoking its continuation
\* and without ending the response
Stalled(r) ==
    \E a \in Invoked(r) :
        /\ HandlerOf(r, a).length = 3
        /\ acts[r][a].nexts = 0
        /\ acts[r][a].st \in Terminal
        /\ res[r].endedBy # acts[r][a].idx

\* C12 as stated: every dispatched request eventually gets an ended
\* response, except when some 3-argument handler neither invokes its
\* continuation nor ends the response.
C12_EventuallyEnded ==
    \A r \in 1..MaxRequests :
        (Len(rq) >= r) ~> (Len(rq) >= r /\ (res[r].ended \/ Stalled(r)))

\* C12 as amended: every dispatched request eventually gets an ended
\* response, or its pipeline comes to rest with no handler having ended the
\* response and no failure caught while the header was still unwritten.
C12_EventuallyEndedAmended ==
    \A r \in 1..MaxRequests :
        (Len(rq) >= r) ~>
            (Len(rq) >= r /\ (res[r].ended \/ (Settled(r) /\ Unanswerable(r))))

\* C12's case: a chain of two handlers, the first suspended and resumed,
\* came to rest with the response ended by the second
C12_Witness ==
    \E r \in 1..Len(rq) :
        /\ Settled(r)
        /\ res[r].ended /\ res[r].endedBy = 2
        /\ \E a \in Invoked(r) : acts[r][a].idx = 1 /\ acts[r][a].awaits = 1

\* C13: no handler failure leaves dispatch: no call of runNext that nobody
\* awaits (the one made by middlewarePipeline, the ones made through a
\* continuation) ends with its promise rejected.
C13_NoFailureEscapes ==
    \A r \in 1..Len(rq) : \A a \in 1..Len(acts[r]) :
        ~acts[r][a].awaited => acts[r][a].st # "rejected"

(***************************************************************************)
(* Registration's claims.                                                  *)
(***************************************************************************)
\* a registration call is made in this step
Registers ==
    lastCall' # lastCall \/ routes' # routes \/ middlewares' # middlewares

\* not a function, or a function whose declared parameter count is neither
\* 2 nor 3
BadHandler(h) == ~h.fn \/ h.length \notin {2, 3}

\* the handlers passed to the registration call
HandlersOf(call) == IF call.op = "route" THEN call.args[3] ELSE <<call.args[1]>>

\* C14: a call of a route method, of use or of global with a handler that is
\* not a function, or whose parameter count is neither 2 nor 3, throws, and
\* the route table and the middleware list are as they were before the
\* call; a call whose handlers are all well formed does not throw.
C14_BadHandlerRejected ==
    [][(Registers /\ lastCall'.op \in {"route", "use", "global"}) =>
          LET hs == HandlersOf(lastCall')
              bad == \E i \in 1..Len(hs) : BadHandler(hs[i])
          IN /\ lastCall'.threw <=> bad
             /\ bad => (routes' = routes /\ middlewares' = middlewares)]_vars

\* C14's case: a route call whose first handler is well formed and whose
\* second is not a function has thrown, after an earlier registration
C14_Witness ==
    /\ lastCall.op = "route" /\ lastCall.threw
    /\ Len(lastCall.args[3]) = 2
    /\ ~BadHandler(lastCall.args[3][1]) /\ BadHandler(lastCall.args[3][2])
    /\ routes # <<>>

\* the first call of a callback that direct registration would refuse, or
\* one past the last call
FirstRefused(ops) ==
    IF \E i \in 1..Len(ops) : \E j \in 1..Len(ops[i].handlers) :
           BadHandler(ops[i].handlers[j])
    THEN CHOOSE i \in 1..Len(ops) :
           /\ \E j \in 1..Len(ops[i].handlers) : BadHandler(ops[i].handlers[j])
           /\ \A k \in 1..(i-1) :
                 \A j \in 1..Len(ops[k].handlers) : ~BadHandler(ops[k].handlers[j])
    ELSE Len(ops) + 1

\* the route table after the same methods are called on the application
\* with prefix + path, in the same order, up to the first refused call
DirectlyRegistered(rts, prefix, ops) ==
    rts \o [i \in 1..(FirstRefused(ops) - 1) |->
               [method |-> ops[i].method, path |-> prefix \o ops[i].path,
                handlers |-> ops[i].handlers]]

OnlyRoutes(ops) == \A i \in 1..Len(ops) : ops[i].kind = "route"

\* C15: after group(prefix, callback), whose callback registers routes
\* through the handle, the route table is what registering the same methods
\* directly with prefix + path, same handlers, same order, would leave;
\* nothing else is stored and group returns the application.
C15_GroupIsPrefixedRegistration ==
    [][(Registers /\ lastCall'.op = "group" /\ OnlyRoutes(lastCall'.args[2])) =>
          /\ routes' = DirectlyRegistered(routes, lastCall'.args[1], lastCall'.args[2])
          /\ middlewares' = middlewares
          /\ lastCall'.threw <=> FirstRefused(lastCall'.args[2]) <= Len(lastCall'.args[2])
          /\ ~lastCall'.threw => lastCall'.ret = "this"]_vars

\* C15's case: a group of two routes of different methods has been
\* registered under the prefix, after a direct registration
C15_Witness ==
    /\ lastCall.op = "group" /\ ~lastCall.threw
    /\ Len(lastCall.args[2]) = 2 /\ OnlyRoutes(lastCall.args[2])
    /\ Len(routes) = 3
    /\ routes[1].path = RegPath
    /\ routes[2].path = RegPrefix \o RegPath /\ routes[3].path = RegPrefix \o RegPath
    /\ routes[2].method # routes[3].method

\* C16: a group opened inside the callback of another group registers its
\* routes under outer prefix + inner prefix + route path.
C16_GroupsNest ==
    [][(Registers /\ lastCall'.op = "group") =>
          LET prefix == lastCall'.args[1]
              ops == lastCall'.args[2]
          IN \A i \in 1..Len(ops) :
                (ops[i].kind # "route" /\ FirstRefused(ops) > i
                    /\ \A k \in 1..(i-1) : ops[k].kind = "route")
                   => \A j \in 1..Len(ops[i].ops) :
                         \E n \in (Len(routes) + 1)..Len(routes') :
                            /\ routes'[n].path = prefix \o ops[i].path \o ops[i].ops[j].path
                            /\ routes'[n].method = ops[i].ops[j].method]_vars

(***************************************************************************)
(* Claims about the body parsers, checked under BodySpec.                  *)
(***************************************************************************)
\* the calls of runNext of request r that invoked the parser called name
CallsOf(r, name) == {a \in Invoked(r) : HandlerOf(r, a).name = name}

\* every assignment to req.body so far was made by the parser called name
AssignedOnlyBy(r, name) ==
    \A i \in 1..Len(inbound.sets) : HandlerOf(r, inbound.sets[i].by).name = name

\* the parser invoked by call a passes the request through: it does not
\* read the stream, it assigns nothing, and once it has run its first
\* statements it has invoked its continuation once, and never again
PassesThrough(r, a) ==
    /\ ~parsing[a].read
    /\ \A i \in 1..Len(inbound.sets) : inbound.sets[i].by # a
    /\ acts[r][a].nexts <= 1
    /\ parsing[a].pc # "start" => acts[r][a].nexts = 1

\* the parser invoked by call a is the one that parses: when it goes on to
\* its continuation it has read the stream and req.body holds its value,
\* assigned once, by it
ParsesAlone(r, a) ==
    /\ acts[r][a].nexts <= 1
    /\ acts[r][a].nexts > 0 =>
          /\ parsing[a].read
          /\ Len(inbound.sets) = 1 /\ inbound.sets[1].by = a
          /\ inbound.body = Parsed(HandlerOf(r, a).name, parsing[a].got)

\* C17: with json() registered before urlencoded(), a request of
\* content-type application/json has req.body assigned by the JSON parser
\* only, and urlencoded() leaves req.body unchanged, does not read the stream
\* and invokes its continuation exactly once; a request of content-type
\* application/x-www-form-urlencoded passes through json() untouched and is
\* parsed by urlencoded() only.
C17_ParsedByItsParserOnly ==
    (Len(rq) = 1 /\ middlewares = <<Parser("json"), Parser("urlencoded")>>) =>
        /\ inbound.ctype = CtJson =>
              /\ AssignedOnlyBy(1, "json")
              /\ \A a \in CallsOf(1, "json") : ParsesAlone(1, a)
              /\ \A a \in CallsOf(1, "urlencoded") :
                    PassesThrough(1, a) /\ Len(inbound.sets) = 1
        /\ inbound.ctype = CtForm =>
              /\ AssignedOnlyBy(1, "urlencoded")
              /\ \A a \in CallsOf(1, "json") : PassesThrough(1, a)
              /\ \A a \in CallsOf(1, "urlencoded") : ParsesAlone(1, a)

\* C17's case: a JSON request has gone through both parsers to the route's
\* handler, json() having read and assigned the body and urlencoded()
\* having passed it on
C17_Witness ==
    /\ Len(rq) = 1 /\ middlewares = <<Parser("json"), Parser("urlencoded")>>
    /\ inbound.ctype = CtJson
    /\ inbound.received > 0
    /\ inbound.body = "value"
    /\ \E a \in CallsOf(1, "urlencoded") : parsing[a].pc = "done"
    /\ \E a \in Invoked(1) : HandlerOf(1, a) = BodyRouteHandler

\* C18: for every request and every sequence of body parsers in its chain
\* (json, urlencoded, raw, text in any order and combination), req.body is
\* assigned at most once: every parser first checks that the body is unset
\* and skips parsing when an earlier parser has already set it.
C18_AssignedAtMostOnce ==
    Len(rq) = 1 =>
        /\ Len(inbound.sets) <= 1
        /\ \A a \in Invoked(1) :
              (IsParser(HandlerOf(1, a)) /\ parsing[a].read)
                 => \A i \in 1..Len(inbound.sets) : inbound.sets[i].by >= a

\* call a invoked json() for a request that json() is to parse: the
\* content-type is application/json and no earlier parser has set req.body
JsonHandles(r, a) ==
    /\ a \in CallsOf(r, "json")
    /\ parsing[a].pc # "start"
    /\ inbound.ctype = CtJson
    /\ \A i \in 1..Len(inbound.sets) : inbound.sets[i].by >= a

RejectedEarly(r, a) ==
    /\ res[r].ended
    /\ res[r].status = 413
    /\ res[r].body = "Payload Too Large"
    /\ res[r].endedBy = acts[r][a].idx
    /\ inbound.received = 0
    /\ ~parsing[a].read
    /\ inbound.body = "undefined"
    /\ acts[r][a].nexts = 0

JsonOver(r, a) == a \in CallsOf(r, "json") /\ parsing[a].pc = "done"

AssignmentsBy(a) == {i \in 1..Len(inbound.sets) : inbound.sets[i].by = a}

\* the failures of a read: the limit exceeded, JSON.parse failing on a
\* non-empty body, an error of the stream
ReadFailed(a) ==
    \/ parsing[a].promise = "large" /\ parsing[a].got > Limit
    \/ parsing[a].promise = "invalid" /\ parsing[a].got > 0 /\ ~inbound.valid
    \/ parsing[a].promise = "error"

\* first outcome: the continuation was invoked once, and req.body was set by
\* this invocation to the parsed value, or to {} for an empty body, or the
\* parser skipped (content-type not JSON, or body set earlier) and left
\* req.body untouched
Continued(r, a) ==
    /\ acts[r][a].nexts = 1
    /\ \/ /\ AssignmentsBy(a) = {}
          /\ ~parsing[a].read
          /\ inbound.ctype # CtJson \/ \E i \in 1..Len(inbound.sets) : inbound.sets[i].by < a
       \/ /\ Cardinality(AssignmentsBy(a)) = 1
          /\ parsing[a].promise = "ok"
          /\ \A i \in AssignmentsBy(a) :
                inbound.sets[i].val = IF parsing[a].got = 0 THEN "{}" ELSE "value"
          /\ parsing[a].got > 0 => inbound.valid

\* second outcome: this invocation ended the response with 413 (too large)
\* or 400 (malformed, or the stream failed), req.body is unset and the
\* continuation was not invoked
Refused(r, a) ==
    /\ acts[r][a].nexts = 0
    /\ inbound.body = "undefined" /\ inbound.sets = <<>>
    /\ res[r].ended /\ res[r].endedBy = acts[r][a].idx
    /\ res[r].ctype = "text/plain"
    /\ \/ /\ res[r].status = 413 /\ res[r].body = "Payload Too Large"
          /\ \/ TooLong(inbound) /\ ~parsing[a].read
             \/ parsing[a].promise = "large" /\ parsing[a].got > Limit
       \/ /\ res[r].status = 400 /\ res[r].body = "Bad Request: Invalid JSON"
          /\ ReadFailed(a) /\ parsing[a].promise # "large"

\* third outcome: the read failed when the response had already been ended
\* by someone else; the parser leaves the response as it is, req.body is
\* unset and the continuation was not invoked
LeftAlone(r, a) ==
    /\ acts[r][a].nexts = 0
    /\ inbound.body = "undefined" /\ inbound.sets = <<>>
    /\ ReadFailed(a)
    /\ res[r].ended /\ res[r].endedBy # acts[r][a].idx
    /\ res[r].status \notin {400, 413}

\* whatever the events, json() invokes its continuation at most once, its
\* promise is never rejected, and the pipeline's catch block never answers
NeverFaults(r) ==
    /\ \A a \in CallsOf(r, "json") :
          acts[r][a].nexts <= 1 /\ acts[r][a].hres # "threw"
    /\ res[r].endedBy # ByPipeline /\ res[r].status # 500

Overflowed(r, a) ==
    /\ a \in Invoked(r) /\ IsParser(HandlerOf(r, a))
    /\ parsing[a].got > Limit

\* the parser of call a has stopped: it reads no more, it assigned nothing
\* and it did not invoke its continuation
StoppedReading(r, a) ==
    /\ parsing[a].pc = "done"
    /\ inbound.reader # a
    /\ AssignmentsBy(a) = {}
    /\ acts[r][a].nexts = 0
    /\ parsing[a].got <= 2 * Limit

Answered413(r, a) ==
    /\ res[r].ended /\ res[r].endedBy = acts[r][a].idx
    /\ res[r].status = 413 /\ res[r].ctype = "text/plain"
    /\ res[r].body = "Payload Too Large"

PassedInWindow(key, t0) ==
    {i \in 1..Len(passed[key]) :
        passed[key][i] >= t0 /\ passed[key][i] <= t0 + rateOpts.windowMs}

\* a request of some key goes through the middleware in this step
RateStep == lastCall'.op = "rateLimit" /\ (lastCall' # lastCall \/ passed' # passed)

Is429(rs) ==
    /\ rs.ended /\ rs.status = 429
    /\ rs.ctype = "application/json" /\ rs.body = RateMessage

\* C22: for every rateLimit configuration (windowMs, max), every client key
\* and every sequence of request times, at most max requests of that key
\* are passed to the continuation within one window (from the window's
\* start time until more than windowMs later); every further request of
\* that key in the window is answered 429 with the configured message, does
\* not invoke the continuation and does not change the counter.
C22_AtMostMaxPerWindow ==
    /\ [](\A key \in RateKeys :
            requests[key].present =>
               Cardinality(PassedInWindow(key, requests[key].resetTime)) <= rateOpts.max)
    /\ [][RateStep =>
            LET key == lastCall'.args[1]
            IN (/\ requests[key].present
                /\ ~Expired(requests[key], now)
                /\ Cardinality(PassedInWindow(key, requests[key].resetTime)) >= rateOpts.max)
               => /\ lastCall'.ret = "429"
                  /\ Is429(res'[1])
                  /\ passed' = passed
                  /\ requests' = requests]_vars

(***************************************************************************)
(* Claims about timeout, checked under TimeoutSpec.                        *)
(***************************************************************************)
Is408(rs) ==
    /\ rs.ended /\ rs.status = 408 /\ rs.endedBy = ByTimer
    /\ rs.ctype = "application/json" /\ rs.body = "Request timeout"

\* the timer's callback runs in this step
TimerStep == timer = "armed" /\ timer' # "armed"

\* C23: the timeout(ms) middleware races a timer against the chain: if the
\* timer fires while the response has not ended, the response is ended with
\* 408 and the pipeline starts no further handler afterwards; if the
\* response is ended first (by any handler or by the pipeline's 500), the
\* timer is cancelled and a 408 is never written, so in every interleaving
\* the response is ended by exactly one of the two.
C23_TimerRacesChain ==
    /\ [](\A r \in 1..Len(rq) :
            /\ res[r].ended =>
                  \/ Is408(res[r]) /\ timer = "fired"
                  \/ res[r].endedBy # ByTimer /\ res[r].status # 408 /\ timer # "fired"
            /\ timer = "fired" => Is408(res[r]))
    /\ [][\A r \in 1..Len(rq) :
            /\ (TimerStep /\ ~res[r].ended) => Is408(res'[r])
            /\ timer # "armed" /\ timer # "none" => log'[r] = log[r]
            /\ (res[r].ended /\ ~Is408(res[r])) => ~Is408(res'[r])]_vars

(***************************************************************************)
(* Claims about allow, ban, basicAuth and the response helpers, checked    *)
(* under ShortcutSpec.                                                     *)
(***************************************************************************)
\* the values JavaScript takes for false
Falsy == {"false", "0", "''", "null", "undefined"}

\* what the condition of the last call comes to for its request
ConditionOf(call) ==
    IF call.args[1].kind = "function"
    THEN call.args[1].returns[call.args[3]] ELSE call.args[1].val

Is403(rs, message) ==
    /\ rs.ended /\ rs.status = 403
    /\ rs.ctype = "application/json" /\ rs.body = message

Untouched(rs) == ~rs.ended /\ ~rs.headersSent /\ rs.status = 200

\* the handler passed the request on and left the response alone
PassedOn == lastCall.ret = "next" /\ Untouched(res[1])

\* the handler answered 403 with the message and did not pass the request on
Denied(default) ==
    /\ lastCall.ret = "answered"
    /\ Is403(res[1], IF lastCall.args[2] = "undefined" THEN default
                     ELSE lastCall.args[2])

\* C24: allow(condition) invokes its continuation exactly when the condition
\* (a static value, or the result of calling it with the request) is truthy
\* and otherwise ends the response with 403 and the given message without
\* invoking the continuation; ban(condition) is the exact dual (continuation
\* exactly when the condition is falsy); for every request each of them
\* produces exactly one of the two outcomes.
C24_AllowBanDual ==
    /\ lastCall.op = "allow" =>
          /\ PassedOn <=> ConditionOf(lastCall) \notin Falsy
          /\ Denied("Access denied") <=> ConditionOf(lastCall) \in Falsy
          /\ PassedOn # Denied("Access denied")
    /\ lastCall.op = "ban" =>
          /\ PassedOn <=> ConditionOf(lastCall) \in Falsy
          /\ Denied("Access forbidden") <=> ConditionOf(lastCall) \notin Falsy
          /\ PassedOn # Denied("Access forbidden")

\* C24's case: ban has answered 403 with its default message to a request for
\* which the condition function returned a truthy value other than true
C24_Witness ==
    /\ lastCall.op = "ban"
    /\ lastCall.args[1].kind = "function"
    /\ ConditionOf(lastCall) = "1"
    /\ Denied("Access forbidden")
    /\ res[1].body = "Access forbidden"

\* the header that carries exactly the credentials of the options
ExactHeader(options) ==
    Header("Basic ", B64Encode(Bytes(options.username \o <<":">> \o options.password)))

Is401(rs) ==
    /\ rs.ended /\ rs.status = 401 /\ rs.ctype = "application/json"
    /\ rs.authenticate # ""

\* C25: basicAuth({username, password}) invokes its continuation if and only
\* if the request's Authorization header is 'Basic ' followed by the base64
\* encoding of exactly username ':' password; every other request (no
\* header, other scheme, other credentials) is answered 401 with a
\* WWW-Authenticate header and the continuation is not invoked; constructing
\* it without username or password throws.
C25_BasicAuthExact ==
    /\ lastCall.op = "basicAuth" =>
          (lastCall.threw <=>
              \/ lastCall.args[1].username \in {Undefined, <<>>}
              \/ lastCall.args[1].password \in {Undefined, <<>>})
    /\ lastCall.op = "basicAuth request" =>
          IF lastCall.args[2] = ExactHeader(lastCall.args[1])
          THEN lastCall.ret = "next" /\ Untouched(res[1])
          ELSE lastCall.ret = "answered" /\ Is401(res[1])

(***************************************************************************)
(* C26                                                                     *)
(***************************************************************************)
\* the status a chain of status calls leaves pending: the last code, or the
\* 200 of enhanceResponse
PendingStatus(codes) == IF codes = <<>> THEN 200 ELSE codes[Len(codes)]

HelperRan(op) == lastCall # NoCall /\ lastCall.op = op /\ Len(res) = 1

\* written and ended, by a call that returned
WroteAndEnded(code) ==
    /\ ~lastCall.threw
    /\ res[1].headersSent
    /\ res[1].ended
    /\ res[1].status = code

StatusOnlyRecords ==
    HelperRan("status") =>
        /\ lastCall.ret = "this"
        /\ res[1] = [enhanceResponse(FreshResponse) EXCEPT
                        !.status = PendingStatus(lastCall.args[1])]

JsonEnds ==
    HelperRan("json") =>
        /\ WroteAndEnded(PendingStatus(lastCall.args[1]))
        /\ res[1].ctype = "application/json"

SendEnds ==
    HelperRan("send") =>
        LET t == lastCall.args[2].type
        IN /\ WroteAndEnded(PendingStatus(lastCall.args[1]))
           /\ res[1].ctype =
                 IF t = "string" THEN "text/html"
                 ELSE IF t = "buffer" THEN "application/octet-stream"
                 ELSE IF t \in {"object", "array", "null"} THEN "application/json"
                 ELSE "text/plain"

RedirectEnds ==
    HelperRan("redirect") =>
        /\ WroteAndEnded(IF Len(lastCall.args) = 3 THEN lastCall.args[3] ELSE 302)
        /\ res[1].location = lastCall.args[2]
        /\ res[1].body = ""

\* C26: on the response of a new request, status(code) records the pending
\* status, returns the response and leaves it unwritten and un-ended; json
\* and send write the pending status (200 when status was never called) and
\* end the response whatever the type of their argument; redirect writes
\* its own status argument, 302 when absent, whatever status is pending,
\* with the Location header, and ends the response with no body.
C26_ResponseHelpers ==
    /\ StatusOnlyRecords
    /\ JsonEnds
    /\ SendEnds
    /\ RedirectEnds

\* redirect(url) after status(404): 302 is written, not the pending 404
C26_Witness ==
    /\ HelperRan("redirect")
    /\ Len(lastCall.args) = 2
    /\ lastCall.args[1] = <<404>>
    /\ res[1].status = 302
    /\ res[1].ended

(***************************************************************************)
(* C27                                                                     *)
(***************************************************************************)
\* all that belongs to one request: its context, its response, its calls
\* of runNext (the cursors), the handlers it has run
ReqState(r) == <<rq[r], res[r], acts[r], log[r], extraNext[r]>>

\* a step that moves one request leaves every other request as it was
OwnStateOnly ==
    \A r \in 1..Len(rq) : \A q \in 1..Len(rq) :
        (r # q /\ ReqState(r)' # ReqState(r)) => ReqState(q)' = ReqState(q)

\* no call of runNext of the request is left unfinished
AtRest(r) == \A a \in 1..Len(acts[r]) : acts[r][a].st \in Terminal

\* the request has a handler suspended, or one that failed
Suspended(r) == \E a \in 1..Len(acts[r]) : acts[r][a].hres = "suspended"
Failed(r) == \E a \in 1..Len(acts[r]) : acts[r][a].hres = "threw"

\* the handlers a request at rest has run are those its own chain and its
\* own handlers' choices give: positions 1, 2, ... without gap or repeat
RanItsOwn(r) == \E n \in 0..Len(rq[r].chain) : log[r] = [i \in 1..n |-> i]

\* C27: with two requests in flight, a step of one request changes nothing
\* of the other (each has its own cursor and context), the handlers a
\* request runs are the positions of its own chain in order, and the second
\* request's handlers are invoked and run to completion even if a handler
\* of the first stays suspended for ever, stalls or fails.
C27_RequestsIndependent ==
    /\ [][OwnStateOnly]_vars
    /\ [](\A r \in 1..Len(rq) : RanItsOwn(r))
    /\ (Len(rq) >= 2) ~> (Len(rq) >= 2 /\ AtRest(2))

\* the second request has run its chain and was answered by its last
\* handler while a handler of the first is still suspended
C27_Witness ==
    /\ Len(rq) = 2
    /\ Suspended(1)
    /\ AtRest(2)
    /\ rq[2].chain # <<>>
    /\ Len(log[2]) = Len(rq[2].chain)
    /\ res[2].ended
    /\ res[2].endedBy = Len(rq[2].chain)

(***************************************************************************)
(* C28                                                                     *)
(***************************************************************************)
\* the calls of runNext made by the continuation of call a
ContinuationCalls(r, a) ==
    {b \in 1..Len(acts[r]) : acts[r][b].parent = a /\ ~acts[r][b].awaited}

\* those that have run their tests, and those that invoked the handler
Entered(r, a) == {b \in ContinuationCalls(r, a) : acts[r][b].st # "called"}
InvokedBy(r, a) == {b \in ContinuationCalls(r, a) : acts[r][b].hres # "none"}

\* how many times position i was invoked
Count(seq, i) == Cardinality({j \in 1..Len(seq) : seq[j] = i})

\* C28: the continuation is not guarded.  For a 3-argument handler that is
\* not the last of its chain, every invocation of its continuation made
\* while the response is not ended invokes the next handler: after k such
\* invocations the next handler has been invoked k times by this handler,
\* each time at the same next index.
C28_ContinuationUnguarded ==
    \A r \in 1..Len(rq) : \A a \in 1..Len(acts[r]) :
        (/\ acts[r][a].hres # "none"
         /\ acts[r][a].idx < Len(rq[r].chain)
         /\ \A b \in Entered(r, a) : acts[r][b].st # "ended")
        => /\ Cardinality(ContinuationCalls(r, a)) = acts[r][a].nexts
           /\ InvokedBy(r, a) = Entered(r, a)
           /\ \A b \in ContinuationCalls(r, a) : acts[r][b].idx = acts[r][a].idx + 1
           /\ Count(log[r], acts[r][a].idx + 1) >= Cardinality(Entered(r, a))

\* the first handler of a chain invoked its continuation three times and
\* the second handler ran three times
C28_Witness ==
    \E r \in 1..Len(rq) : \E a \in 1..Len(acts[r]) :
        /\ acts[r][a].idx = 1
        /\ acts[r][a].nexts = 3
        /\ Cardinality(InvokedBy(r, a)) = 3
        /\ Count(log[r], 2) = 3
        /\ ~res[r].ended

(***************************************************************************)
(* C29                                                                     *)
(***************************************************************************)
\* the call of runNext made past the last handler of the chain
PastTheEnd(r) == {a \in 1..Len(acts[r]) : acts[r][a].idx > Len(rq[r].chain)}

\* no call of runNext of the request went through its catch block
NoFault(r) == \A a \in 1..Len(acts[r]) : acts[r][a].st \notin {"caught", "rejected"}

\* the step in which a call of runNext returns at its index test
ReturnsExhausted(r, a) ==
    /\ acts[r][a].st = "called"
    /\ acts'[r][a].st = "exhausted"

\* C29: when every handler of a chain has advanced (a 2-argument handler
\* returned, a 3-argument handler invoked its continuation and returned)
\* and none ended the response, every handler ran, the call of runNext past
\* the last handler returned at the index test, no catch block ran, the
\* response is not a 500 and is not ended; and the return at the index test
\* writes nothing to the response.
C29_ExhaustedSilently ==
    /\ [](\A r \in 1..Len(rq) :
            AllAdvanced(r) =>
                /\ Len(log[r]) = Len(rq[r].chain)
                /\ PastTheEnd(r) # {}
                /\ \A a \in PastTheEnd(r) : acts[r][a].st = "exhausted"
                /\ NoFault(r)
                /\ res[r].status # 500
                /\ ~res[r].ended
                /\ res[r].endedBy = 0
                /\ res[r].body = "")
    /\ [][\A r \in 1..Len(rq) : \A a \in 1..Len(acts[r]) :
            ReturnsExhausted(r, a) => res' = res]_vars

\* a chain of three handlers, all advanced, none wrote anything: the
\* response is as dispatch left it
C29_Witness ==
    \E r \in 1..Len(rq) :
        /\ AllAdvanced(r)
        /\ Len(rq[r].chain) = 3
        /\ \E a \in PastTheEnd(r) : acts[r][a].st = "exhausted"
        /\ res[r] = enhanceResponse(FreshResponse)

(***************************************************************************)
(* C30                                                                     *)
(***************************************************************************)
\* what the pipeline of a request has come to: some call of runNext found
\* the response ended, ran past the last handler, or went through its catch
\* block
ObservedEnded(r) == \E a \in 1..Len(acts[r]) : acts[r][a].st = "ended"
ObservedExhausted(r) == \E a \in 1..Len(acts[r]) : acts[r][a].st = "exhausted"
ObservedFaulted(r) == \E a \in 1..Len(acts[r]) : acts[r][a].st \in {"caught", "rejected"}

\* the step invokes no handler of the request
NoInvocation(r) == log'[r] = log[r]

\* C30: Ended, Exhausted and Faulted are terminal: once some call of
\* runNext of a request found the response ended, ran past the last handler
\* or caught a failure, no handler of the request is invoked afterwards.
C30_TerminalStates ==
    [][\A r \in 1..Len(rq) :
          (ObservedEnded(r) \/ ObservedExhausted(r) \/ ObservedFaulted(r))
              => NoInvocation(r)]_vars

\* a call of runNext that has returned never moves again
CallOver(r, a) == acts[r][a].st \in Terminal => acts'[r][a] = acts[r][a]

\* C30 (amended): once the response is ended no handler of the request is
\* invoked, whatever the handlers and continuation calls still pending;
\* Exhausted and Faulted end the call of runNext that reached them, which
\* never moves again and invokes nothing more.
C30_TerminalStatesAmended ==
    [][\A r \in 1..Len(rq) :
          /\ res[r].ended => NoInvocation(r)
          /\ \A a \in 1..Len(acts[r]) : CallOver(r, a)]_vars

\* a call ran past the last handler, a later continuation call invoked a
\* handler again, which ended the response, and a third call found it ended
C30_Witness ==
    \E r \in 1..Len(rq) : \E a, b, c \in 1..Len(acts[r]) :
        /\ a < b /\ b < c
        /\ acts[r][a].st = "exhausted"
        /\ acts[r][b].hres # "none"
        /\ res[r].endedBy = acts[r][b].idx
        /\ acts[r][c].st = "ended"

(***************************************************************************)
(* C31                                                                     *)
(***************************************************************************)
\* the key and the time of the request that goes through the middleware in
\* this step
StepKey == lastCall'.args[1]
StepTime == lastCall'.args[2]

\* the start of the key's current window: the resetTime of its record,
\* kept in unswept when the cleanup has deleted the record
WindowStart(key) == unswept[key].resetTime

\* the request was passed and opened a window at its arrival time
OpensWindow ==
    /\ lastCall'.ret = "next"
    /\ requests'[StepKey] = [present |-> TRUE, count |-> 1, resetTime |-> StepTime]

\* the request was handled in the window it arrived in: passed and counted
\* while fewer than max were counted, rejected otherwise
StaysInWindow ==
    /\ requests[StepKey].present
    /\ requests'[StepKey].resetTime = WindowStart(StepKey)
    /\ IF requests[StepKey].count < rateOpts.max
       THEN /\ lastCall'.ret = "next"
            /\ requests'[StepKey].count = requests[StepKey].count + 1
       ELSE /\ lastCall'.ret = "429"
            /\ requests'[StepKey] = requests[StepKey]

\* C31: a request of a key that arrives more than windowMs after the start
\* of the key's current window is passed on and starts a new window at its
\* arrival time with a count of 1, whatever was counted or rejected before;
\* a request that arrives exactly windowMs after the start is still handled
\* in the old window.
C31_WindowExpiry ==
    [][(RateStep /\ unswept[StepKey].present) =>
          /\ StepTime - WindowStart(StepKey) > rateOpts.windowMs => OpensWindow
          /\ StepTime - WindowStart(StepKey) = rateOpts.windowMs => StaysInWindow]_vars

\* a key whose window was full is passed again once the window is over, as
\* the first request of a new window
C31_Witness ==
    \E key \in RateKeys :
        /\ rateOpts.max >= 1
        /\ rateOpts.windowMs >= 1
        /\ lastCall = Call("rateLimit", <<key, now>>, FALSE, "next")
        /\ requests[key] = [present |-> TRUE, count |-> 1, resetTime |-> now]
        /\ Len(passed[key]) = rateOpts.max + 1
        /\ now - passed[key][1] > rateOpts.windowMs

(***************************************************************************)
(* C37                                                                     *)
(***************************************************************************)
\* what the middleware would decide had the cleanup never run
PassesUnswept == RateOutcome(unswept[StepKey], StepTime).pass

\* the Map and the Map without cleanup differ only by records whose window
\* is over
SweptOnlyExpired ==
    \A key \in RateKeys :
        IF requests[key].present
        THEN unswept[key] = requests[key]
        ELSE unswept[key].present => Expired(unswept[key], now)

\* C37: the cleanup is unobservable.  Whatever the request times and the
\* cleanup runs in between, every request is passed or rejected as it would
\* be had the cleanup never run, and the records the cleanup has removed
\* are records whose window was over.
C37_CleanupUnobservable ==
    /\ [][RateStep => (lastCall'.ret = "next" <=> PassesUnswept)]_vars
    /\ []SweptOnlyExpired

\* the cleanup has deleted the record of a key, and a later request of
\* another key was rejected in its own full window
C37_Witness ==
    \E key \in RateKeys : \E other \in RateKeys \ {key} :
        /\ unswept[key].present
        /\ ~requests[key].present
        /\ lastCall = Call("rateLimit", <<other, now>>, FALSE, "429")
        /\ requests[other].present

(***************************************************************************)
(* C38                                                                     *)
(***************************************************************************)
\* the step is a cleanup that deletes the record of the key
SweepsAway(key) ==
    /\ lastCall' = lastCall
    /\ Stale(requests[key], now)
    /\ requests'[key] = NoRecord

\* C38: records are per key.  A request of one key leaves the record of
\* every other key as it was; the record of a key is created and changed by
\* requests of that key only (and deleted by the cleanup); and a request is
\* passed or rejected by what the middleware makes of the record of its own
\* key.
C38_RecordsPerKey ==
    /\ [][RateStep =>
            /\ \A key \in RateKeys \ {StepKey} : requests'[key] = requests[key]
            /\ lastCall'.ret = "next" <=> RateOutcome(requests[StepKey], StepTime).pass]_vars
    /\ [][\A key \in RateKeys :
            requests'[key] # requests[key] =>
                \/ RateStep /\ StepKey = key
                \/ SweepsAway(key)]_vars

\* one key is rejected in its full window while the other, in the same
\* window of time, has been passed with room left
C38_Witness ==
    \E key \in RateKeys : \E other \in RateKeys \ {key} :
        /\ rateOpts.max = 2
        /\ requests[key].present /\ requests[key].count = 2
        /\ requests[other] = [present |-> TRUE, count |-> 1, resetTime |-> now]
        /\ requests[key].resetTime < now
        /\ ~Expired(requests[key], now)
        /\ lastCall = Call("rateLimit", <<key, now>>, FALSE, "429")

(***************************************************************************)
(* C32                                                                     *)
(***************************************************************************)
\* the positions of the chain whose handler has been invoked so far
InvokedPositions(r) == {log[r][j] : j \in 1..Len(log[r])}

\* the step invokes the handler at position i
Invokes(r, i) == Len(log'[r]) = Len(log[r]) + 1 /\ log'[r][Len(log'[r])] = i

\* C32: handlers are invoked in chain order without skipping.  At every
\* moment the positions invoked so far are 1..n for some n, and a step that
\* invokes the handler at position i + 1 is taken only when the handler at
\* position i has been invoked, also when continuations are invoked again
\* or after a suspension.
C32_InvokedPrefix ==
    /\ [](\A r \in 1..Len(rq) :
            \E n \in 0..Len(rq[r].chain) : InvokedPositions(r) = 1..n)
    /\ [][\A r \in 1..Len(rq) : \A i \in 2..Len(rq[r].chain) :
            Invokes(r, i) => (i - 1) \in InvokedPositions(r)]_vars

\* the first handler suspended, then invoked its continuation a second
\* time: the second handler ran twice and nothing else ran
C32_Witness ==
    \E r \in 1..Len(rq) : \E a \in 1..Len(acts[r]) :
        /\ acts[r][a].idx = 1
        /\ acts[r][a].awaits = 1
        /\ acts[r][a].nexts = 2
        /\ log[r] = <<1, 2, 2>>

(***************************************************************************)
(* C33                                                                     *)
(***************************************************************************)
\* no handler of the request has invoked its continuation twice
NextAtMostOnce(r) == \A a \in 1..Len(acts[r]) : acts[r][a].nexts <= 1

\* C33: if every 3-argument handler invokes its continuation at most once,
\* every handler of the chain is invoked at most once for the request,
\* whatever the mix of handlers that return at once and handlers that
\* suspend.
C33_AtMostOnce ==
    \A r \in 1..Len(rq) :
        NextAtMostOnce(r) =>
            \A i \in 1..Len(rq[r].chain) : Count(log[r], i) <= 1

\* a chain of four handlers, two of which suspended, all invoked once
C33_Witness ==
    \E r \in 1..Len(rq) :
        /\ Len(rq[r].chain) = 4
        /\ log[r] = <<1, 2, 3, 4>>
        /\ AwaitsUsed(r) = 2
        /\ \E a \in 1..Len(acts[r]) : acts[r][a].nexts = 1
        /\ Settled(r)

(***************************************************************************)
(* C34                                                                     *)
(***************************************************************************)
\* the step dispatches a request that matches a route
DispatchesMatched == Len(rq') = Len(rq) + 1 /\ rq'[Len(rq')].route # 0

\* the step registers a middleware or a route
RegistersLate == middlewares' # middlewares \/ routes' # routes

\* C34: the chain of a request is fixed at dispatch.  It is the list of
\* middlewares followed by the route's handlers as they stand when the
\* request is dispatched, late registrations included; no later step, and
\* no registration in particular, changes the chain of a request already
\* dispatched or the handlers it has run, and the handlers it runs are
\* positions of that chain.
C34_ChainFixedAtDispatch ==
    /\ [][\A r \in 1..Len(rq) : rq'[r] = rq[r]]_vars
    /\ [][RegistersLate => (log' = log /\ acts' = acts /\ res' = res)]_vars
    /\ [][DispatchesMatched =>
            rq'[Len(rq')].chain =
                middlewares \o routes[rq'[Len(rq')].route].handlers]_vars
    /\ [](\A r \in 1..Len(rq) : InvokedPositions(r) \subseteq 1..Len(rq[r].chain))

\* a middleware was registered while the first request was suspended: the
\* first request ran its old chain to the end, the second request, dispatched
\* afterwards, has the longer chain
C34_Witness ==
    /\ Len(rq) = 2
    /\ rq[1].route # 0 /\ rq[2].route # 0
    /\ Len(rq[2].chain) = Len(rq[1].chain) + 1
    /\ \E a \in 1..Len(acts[1]) : acts[1][a].awaits = 1
    /\ Len(log[1]) = Len(rq[1].chain)
    /\ AtRest(1)
    /\ log[2] # <<>>

(***************************************************************************)
(* C35                                                                     *)
(***************************************************************************)
\* the parameter names of a pattern: the names after ":" that pathToRegex
\* turns into groups
ParamNames(path) == GroupNames(RegexTokens(path, 1))

\* the names req.params has a value for
NamesIn(params) == {p.name : p \in params}

\* C35: whenever the route test selects a pattern that has ":" parameters,
\* params holds a value for every parameter name of the pattern, whatever
\* the pathname that selected it, the pattern text itself included.
C35_ParamsComplete ==
    (mVerdict.done /\ mVerdict.matched /\ ParamNames(mPattern) # {})
        => NamesIn(mVerdict.params) = ParamNames(mPattern)

(***************************************************************************)
(* Failures under timeout: the runs of timeout(), where the other    *)
(* 3-argument handlers may also invoke their continuation again.           *)
(***************************************************************************)
FaultInit ==
    /\ NoMatcherRun
    /\ AppIdle
    /\ limits = [awaits |-> 1, extraNext |-> MaxAgain]

FaultSpec == FaultInit /\ [][TimeoutNext]_vars

(***************************************************************************)
(* The 500 of the pipeline, under repeated continuation calls and timeout. *)
(***************************************************************************)
\* the step changes the response of request r into one that carries a 500
Writes500(r) ==
    /\ res'[r] # res[r]
    /\ \/ res'[r].status = 500
       \/ res'[r].endedBy = ByPipeline

\* branches of request r whose handler threw or rejected
FailedBranches(r) == {a \in 1..Len(acts[r]) : acts[r][a].hres = "threw"}

\* C36: the pipeline writes its 500 at most once per request and never to a
\* response that has already ended: a step that writes it starts from a
\* response with nothing written and leaves the whole 500, ended; a response
\* that has ended is never written again, whatever fails afterwards
C36_Pipeline500Once ==
    /\ [][\A r \in 1..Len(rq) :
            Writes500(r) => /\ ~res[r].ended
                            /\ ~res[r].headersSent
                            /\ Is500(res'[r])
                            /\ res'[r].endedBy = ByPipeline]_vars
    /\ [][\A r \in 1..Len(rq) : res[r].ended => res'[r] = res[r]]_vars

\* two branches of one request have failed, a timeout is armed or has
\* fired, and the response carries one 500 of the pipeline
C36_Witness ==
    \E r \in 1..Len(rq) :
        /\ Cardinality(FailedBranches(r)) >= 2
        /\ Is500(res[r])
        /\ res[r].endedBy = ByPipeline
        /\ timer # "none"

(***************************************************************************)
(* timeout() as a guarantee of an answer.                                  *)
(***************************************************************************)
\* a synchronous stretch of JavaScript under timeout() runs to its end
TimeoutStretch == stack # <<>> /\ TimeoutNext

\* the runs of timeout() where running code comes to an end and the timer,
\* while it is armed and the response has not ended, does fire; nothing is
\* assumed of the promises the handlers await
TimeoutLiveSpec ==
    TimeoutInit /\ [][TimeoutNext]_vars /\ WF_vars(TimeoutStretch) /\ WF_vars(TimeoutFires)

\* C39: with timeout(ms) first in the chain, every matched request
\* eventually has its response ended, whatever the later handlers do,
\* given that the timer fires
C39_TimeoutAlwaysAnswers ==
    (Len(rq) >= 1 /\ rq[1].route # 0) ~> (Len(rq) >= 1 /\ res[1].ended)

====
